---- MODULE Spec2Model ----
(***************************************************************************)
(* D17B / D37C Minuteman guidance computer emulator: the CPU core of       *)
(* src/src/d17b.c (state of src/include/d17b.h) as a state machine.        *)
(*                                                                         *)
(* The whole d17b_cpu_t struct is the variable cpu; every public operation *)
(* of the core (init, reset, write, step, run) and every field the host    *)
(* driver of src/src/main.c sets directly is one action.  C's unsigned     *)
(* 32-bit and signed 64-bit arithmetic is computed on integers below 2^31  *)
(* (products and dividends in two 23-bit limbs).                           *)
(***************************************************************************)
EXTENDS Integers, Naturals, Sequences, FiniteSets, TLC

VARIABLES cpu,    \* the d17b_cpu_t struct
          last,   \* the last operation applied to it, with what it fetched
          ua,     \* unit harness: first operand word
          ub,     \* unit harness: second operand word
          ur,     \* unit harness: result word
          uop     \* unit harness: the function applied

vars == <<cpu, last, ua, ub, ur, uop>>

(***************************************************************************)
(* Word-size and memory-layout constants (d17b.h).                         *)
(***************************************************************************)
WORD_BITS == 24
WORD_MASK == 16777215
SIGN_BIT == 8388608
MAGNITUDE_MASK == 8388607
CHANNELS == 47
SECTORS == 128
F_LOOP_SIZE == 4
E_LOOP_SIZE == 8
H_LOOP_SIZE == 16
V_LOOP_SIZE == 4
R_LOOP_SIZE == 4
CHAN_F_LOOP == 42
CHAN_H_LOOP == 44
CHAN_E_LOOP == 46
CHAN_U_LOOP == 48
CHAN_L_REG == 52
CHAN_V_LOOP == 56
CHAN_R_LOOP == 58
OP_SHIFT == 0
OP_SCL == 1
OP_TMI_TZE == 2
OP_SMP == 4
OP_MPY == 5
OP_TMI == 6
OP_DIV_MPM == 7
OP_SPECIAL == 8
OP_CLA == 9
OP_TRA == 10
OP_STO == 11
OP_SAD == 12
OP_ADD == 13
OP_SSU == 14
OP_SUB == 15

(***************************************************************************)
(* Bit operations of C on non-negative integers.                           *)
(***************************************************************************)
Pow2(n) == 2 ^ n

RECURSIVE BitAnd(_, _)
BitAnd(a, b) ==
    IF a = 0 \/ b = 0 THEN 0
    ELSE (IF a % 2 = 1 /\ b % 2 = 1 THEN 1 ELSE 0) + 2 * BitAnd(a \div 2, b \div 2)

RECURSIVE BitOr(_, _)
BitOr(a, b) ==
    IF a = 0 THEN b
    ELSE IF b = 0 THEN a
    ELSE (IF a % 2 = 1 \/ b % 2 = 1 THEN 1 ELSE 0) + 2 * BitOr(a \div 2, b \div 2)

RECURSIVE BitXor(_, _)
BitXor(a, b) ==
    IF a = 0 THEN b
    ELSE IF b = 0 THEN a
    ELSE (IF a % 2 # b % 2 THEN 1 ELSE 0) + 2 * BitXor(a \div 2, b \div 2)

\* x << n and x >> n on values that stay below 2^31
Shl(x, n) == x * Pow2(n)
Shr(x, n) == x \div Pow2(n)

\* the value of an int converted to uintN / masked with 2^N - 1 (two's complement)
Low(x, bits) == x % Pow2(bits)

\* ((x << n) & WORD_MASK) of a uint32 x: the bits shifted past bit 31 and those
\* masked off are both dropped, which leaves the low 24 - n bits of x moved up
ShlMask24(x, n) == Shl(Low(x, WORD_BITS - n), n)

Abs(x) == IF x < 0 THEN -x ELSE x

(***************************************************************************)
(* Instruction field extraction (d17b.h GET_* macros).                     *)
(***************************************************************************)
GET_OPCODE(w) == Low(Shr(w, 20), 4)
GET_FLAG(w) == Low(Shr(w, 19), 1)
GET_SP(w) == Low(Shr(w, 15), 4)
GET_CHANNEL(w) == Low(Shr(w, 9), 6)
GET_SECTOR(w) == Low(Shr(w, 2), 7)
GET_FLAG_CODE(w) == BitAnd(w, 7)

\* main.c ENCODE_INSTR
ENCODE_INSTR(op, flag, sp, chan, sec) ==
    BitOr(BitOr(BitOr(BitOr(Shl(BitAnd(op, 15), 20), Shl(BitAnd(flag, 1), 19)),
                      Shl(BitAnd(sp, 15), 15)),
                Shl(BitAnd(chan, 63), 9)),
          Shl(BitAnd(sec, 127), 2))

(***************************************************************************)
(* 24-bit sign-magnitude arithmetic.                                       *)
(***************************************************************************)
to_signed(val) ==
    IF BitAnd(val, SIGN_BIT) # 0 THEN -BitAnd(val, MAGNITUDE_MASK)
    ELSE BitAnd(val, MAGNITUDE_MASK)

from_signed(val) ==
    IF val < 0 THEN BitOr(SIGN_BIT, BitAnd(-val, MAGNITUDE_MASK))
    ELSE BitAnd(val, MAGNITUDE_MASK)

\* mutant: the result is not clamped
ClampNone(result) == result

\* the clamp both d17b_add_24bit and d17b_sub_24bit apply to their int32 result
ClampMagnitude(result) ==
    IF result > MAGNITUDE_MASK THEN MAGNITUDE_MASK
    ELSE IF result < -MAGNITUDE_MASK THEN -MAGNITUDE_MASK
    ELSE result

\* mutant: the words are added as unsigned integers, the carry dropped
AddUnsigned(a, b) == BitAnd(a + b, WORD_MASK)

d17b_add_24bit(a, b) == from_signed(ClampMagnitude(to_signed(a) + to_signed(b)))

d17b_sub_24bit(a, b) == from_signed(ClampMagnitude(to_signed(a) - to_signed(b)))

d17b_complement(val) == BitXor(val, SIGN_BIT)

(***************************************************************************)
(* The CPU state after memset(cpu, 0) followed by d17b_reset.              *)
(***************************************************************************)
ZeroLoop(n) == [i \in 0..(n - 1) |-> 0]

\* memory[CHANNELS][SECTORS] is held as the finite map of its non-zero cells:
\* a cell that is not in the map holds 0
ZeroMemory == [k \in {} |-> 0]

\* memory[channel][sector]
MemGet(mem, channel, sector) ==
    IF <<channel, sector>> \in DOMAIN mem THEN mem[<<channel, sector>>] ELSE 0

\* memory[channel][sector] = v
MemPut(mem, channel, sector, v) ==
    IF v = 0
    THEN [k \in DOMAIN mem \ {<<channel, sector>>} |-> mem[k]]
    ELSE [k \in DOMAIN mem \cup {<<channel, sector>>} |->
             IF k = <<channel, sector>> THEN v ELSE mem[k]]

\* d17b_reset, "Clear registers"
ResetRegisters(c) == [c EXCEPT !.A = 0, !.L = 0, !.N = 0, !.I = 0, !.P = 0]

\* mutant: the F loop is left out of the clearing
ResetLoopsButF(c) ==
    [c EXCEPT !.U = 0,
              !.E = ZeroLoop(E_LOOP_SIZE),
              !.H = ZeroLoop(H_LOOP_SIZE), !.V = ZeroLoop(V_LOOP_SIZE),
              !.R = ZeroLoop(R_LOOP_SIZE)]

\* d17b_reset, "Clear rapid-access loops"
ResetLoops(c) ==
    [c EXCEPT !.U = 0,
              !.F = ZeroLoop(F_LOOP_SIZE), !.E = ZeroLoop(E_LOOP_SIZE),
              !.H = ZeroLoop(H_LOOP_SIZE), !.V = ZeroLoop(V_LOOP_SIZE),
              !.R = ZeroLoop(R_LOOP_SIZE)]

\* mutant: the mode bit is left alone
ResetStatusKeepsMode(c) ==
    [c EXCEPT !.current_sector = 0, !.cycle_count = 0,
              !.halted = FALSE, !.error = FALSE]

\* d17b_reset, "Reset disc position" and "Clear status"
ResetStatus(c) ==
    [c EXCEPT !.current_sector = 0, !.cycle_count = 0,
              !.halted = FALSE, !.error = FALSE, !.d37c_mode = TRUE]

\* d17b_reset, "Clear I/O", the detector and the countdown
ResetIO(c) ==
    [c EXCEPT !.discrete_in_a = 0, !.discrete_in_b = 0, !.discrete_out_a = 0,
              !.voltage_out = ZeroLoop(4), !.binary_out = ZeroLoop(4),
              !.detector = FALSE, !.fine_countdown = 0,
              !.countdown_enabled = FALSE]

\* d17b_reset: the struct after the call; main memory is not touched
d17b_reset(c) == ResetIO(ResetStatus(ResetLoops(ResetRegisters(c))))

\* memset(cpu, 0, sizeof(d17b_cpu_t))
ZeroCpu ==
    [A |-> 0, L |-> 0, N |-> 0, I |-> 0, P |-> 0, U |-> 0,
     F |-> ZeroLoop(F_LOOP_SIZE), E |-> ZeroLoop(E_LOOP_SIZE),
     H |-> ZeroLoop(H_LOOP_SIZE), V |-> ZeroLoop(V_LOOP_SIZE),
     R |-> ZeroLoop(R_LOOP_SIZE),
     memory |-> ZeroMemory,
     current_sector |-> 0, cycle_count |-> 0,
     halted |-> FALSE, error |-> FALSE, d37c_mode |-> FALSE,
     discrete_in_a |-> 0, discrete_in_b |-> 0, discrete_out_a |-> 0,
     voltage_out |-> ZeroLoop(4), binary_out |-> ZeroLoop(4),
     detector |-> FALSE, fine_countdown |-> 0, countdown_enabled |-> FALSE]

d17b_init == d17b_reset(ZeroCpu)

(***************************************************************************)
(* Memory access with loop aliasing.                                       *)
(***************************************************************************)
\* mutant: channel 52 is read from the main memory under it
ReadFBacking(c, sector) == MemGet(c.memory, CHAN_F_LOOP, sector)

\* case CHAN_F_LOOP of d17b_read
ReadF(c, sector) == c.F[BitAnd(sector, 3)]

\* mutant: every channel and sector number is taken to be inside the grid
InGridAlways(channel, sector) == TRUE

\* the bounds test in front of cpu->memory[channel][sector]
InGrid(channel, sector) == channel < CHANNELS /\ sector < SECTORS

d17b_read(c, channel, sector) ==
    CASE channel = CHAN_U_LOOP -> c.U
      [] channel = CHAN_L_REG -> c.L
      [] channel = CHAN_F_LOOP -> ReadF(c, sector)
      [] channel = CHAN_E_LOOP -> c.E[BitAnd(sector, 7)]
      [] channel = CHAN_H_LOOP -> c.H[BitAnd(sector, 15)]
      [] channel = CHAN_V_LOOP -> c.V[BitAnd(sector, 3)]
      [] channel = CHAN_R_LOOP -> c.R[BitAnd(sector, 3)]
      [] OTHER -> IF InGrid(channel, sector)
                  THEN MemGet(c.memory, channel, sector)
                  ELSE 0

\* mutant: the value is stored as it is passed
MaskNone(value) == value

\* value &= WORD_MASK
MaskWord(value) == BitAnd(value, WORD_MASK)

d17b_write(c, channel, sector, value) ==
    LET v == MaskWord(value) IN
    CASE channel = CHAN_U_LOOP -> [c EXCEPT !.U = v]
      [] channel = CHAN_L_REG -> [c EXCEPT !.L = v]
      [] channel = CHAN_F_LOOP -> [c EXCEPT !.F[BitAnd(sector, 3)] = v]
      [] channel = CHAN_E_LOOP -> [c EXCEPT !.E[BitAnd(sector, 7)] = v]
      [] channel = CHAN_H_LOOP -> [c EXCEPT !.H[BitAnd(sector, 15)] = v]
      [] channel = CHAN_V_LOOP -> [c EXCEPT !.V[BitAnd(sector, 3)] = v]
      [] channel = CHAN_R_LOOP -> [c EXCEPT !.R[BitAnd(sector, 3)] = v]
      [] OTHER -> IF InGrid(channel, sector)
                  THEN [c EXCEPT !.memory = MemPut(c.memory, channel, sector, v)]
                  ELSE c

(***************************************************************************)
(* Multiply and divide.  The int64 product and the uint64 dividend are     *)
(* held as two limbs, hi * 2^23 + lo, so that no intermediate value        *)
(* reaches 2^31.                                                           *)
(***************************************************************************)
\* mutant: the carry out of the low limb is dropped
MulLimbsNoCarry(x, y) ==
    LET x1 == x \div 4096
        x0 == x % 4096
        y1 == y \div 4096
        y0 == y % 4096
        cross == x1 * y0 + x0 * y1
        low == (cross % 2048) * 4096 + x0 * y0
    IN [hi |-> 2 * (x1 * y1) + (cross \div 2048),
        lo |-> low % Pow2(23)]

\* x * y for 0 <= x, y < 2^23, as [hi, lo] with x * y = hi * 2^23 + lo
MulLimbs(x, y) ==
    LET x1 == x \div 4096
        x0 == x % 4096
        y1 == y \div 4096
        y0 == y % 4096
        cross == x1 * y0 + x0 * y1
        low == (cross % 2048) * 4096 + x0 * y0
    IN [hi |-> 2 * (x1 * y1) + (cross \div 2048) + (low \div Pow2(23)),
        lo |-> low % Pow2(23)]

\* d17b_multiply.  a >> 14 of a negative int32 is the arithmetic shift every
\* supported compiler produces (floor division).
d17b_multiply(c, operand, split) ==
    LET a0 == to_signed(c.A)
        b0 == to_signed(operand)
        as == Low(a0 \div Pow2(14), 10)
        bs == Low(b0 \div Pow2(14), 10)
        a == IF split
             THEN (IF BitAnd(c.A, SIGN_BIT) # 0 THEN -as ELSE as)
             ELSE a0
        b == IF split
             THEN (IF BitAnd(operand, SIGN_BIT) # 0 THEN -bs ELSE bs)
             ELSE b0
        negative == (a < 0 /\ b > 0) \/ (a > 0 /\ b < 0)
        product == MulLimbs(Abs(a), Abs(b))
    IN IF negative
       THEN [c EXCEPT !.A = BitOr(SIGN_BIT, BitAnd(product.hi, MAGNITUDE_MASK)),
                      !.L = BitAnd(product.lo, MAGNITUDE_MASK)]
       ELSE [c EXCEPT !.A = BitAnd(product.hi, MAGNITUDE_MASK),
                      !.L = BitAnd(product.lo, MAGNITUDE_MASK)]

\* schoolbook division of (rem * 2^(i+1) + low bits i..0 of l) by d, rem < d:
\* [q, r] with q the i+1 quotient bits appended to q
RECURSIVE LongDiv(_, _, _, _, _)
LongDiv(rem, q, l, d, i) ==
    IF i < 0 THEN [q |-> q, r |-> rem]
    ELSE LET r2 == 2 * rem + (Shr(l, i) % 2)
         IN IF r2 >= d
            THEN LongDiv(r2 - d, 2 * q + 1, l, d, i - 1)
            ELSE LongDiv(r2, 2 * q, l, d, i - 1)

\* mutant: the high word of the dividend is divided alone, its remainder is
\* not carried into the low word
DivLimbsNoCarry(a, l, d) ==
    LET low == LongDiv(0, 0, l, d, 22)
    IN [qhi |-> a \div d, qlo |-> low.q, r |-> low.r]

\* dividend / div_mag and dividend % div_mag for dividend = (a << 23) | l:
\* the quotient is qhi * 2^23 + qlo, so it exceeds MAGNITUDE_MASK iff qhi > 0
DivLimbs(a, l, d) ==
    LET low == LongDiv(a % d, 0, l, d, 22)
    IN [qhi |-> a \div d, qlo |-> low.q, r |-> low.r]

\* mutant: only a quotient of 2^24 or more counts as an overflow
OverflowAbove24Bits(d) == d.qhi > 1

\* quotient > MAGNITUDE_MASK
Overflow(d) == d.qhi > 0

\* mutant: a divide that does not overflow clears the latch
DivideErrorCleared(c, overflow) == overflow

\* the error latch after the overflow test of d17b_divide
DivideError(c, overflow) == IF overflow THEN TRUE ELSE c.error

\* mutant: an overflowing quotient is truncated to its low 23 bits
QuotientTruncated(d, overflow) == d.qlo

\* the quotient after the overflow test of d17b_divide: saturated on overflow
Quotient(d, overflow) == IF overflow THEN MAGNITUDE_MASK ELSE d.qlo

\* mutant: the sign bit is set on a zero magnitude as well
ApplySignToZero(mag, neg, value) ==
    IF neg THEN BitOr(mag, SIGN_BIT) ELSE mag

\* "Apply signs" of d17b_divide: the sign bit is set only on a non-zero value
ApplySign(mag, neg, value) ==
    IF neg /\ value # 0 THEN BitOr(mag, SIGN_BIT) ELSE mag

\* mutant: a divide by zero also zeroes the quotient register
DivideByZeroClearsA(c) == [c EXCEPT !.error = TRUE, !.A = 0]

\* the early return of d17b_divide: the latch is set, nothing else is touched
DivideByZero(c) == [c EXCEPT !.error = TRUE]

d17b_divide(c, divisor) ==
    IF BitAnd(divisor, MAGNITUDE_MASK) = 0
    THEN DivideByZero(c)
    ELSE LET dividend_neg == BitAnd(c.A, SIGN_BIT) # 0
             divisor_neg == BitAnd(divisor, SIGN_BIT) # 0
             quotient_neg == dividend_neg # divisor_neg
             div_mag == BitAnd(divisor, MAGNITUDE_MASK)
             d == DivLimbs(BitAnd(c.A, MAGNITUDE_MASK),
                           BitAnd(c.L, MAGNITUDE_MASK), div_mag)
             overflow == Overflow(d)
             quotient == Quotient(d, overflow)
             remainder == d.r
             qa == BitAnd(quotient, MAGNITUDE_MASK)
             rl == BitAnd(remainder, MAGNITUDE_MASK)
         IN [c EXCEPT !.error = DivideError(c, overflow),
                      !.A = ApplySign(qa, quotient_neg, quotient),
                      !.L = ApplySign(rl, dividend_neg, remainder)]

(***************************************************************************)
(* Flag store.                                                             *)
(***************************************************************************)
d17b_flag_store(c, flag_code, operand_sector) ==
    LET value == c.A IN
    CASE flag_code = 0 -> c
      [] flag_code = 2 -> [c EXCEPT !.F[BitAnd(operand_sector, 3)] = value]
      [] flag_code = 4 -> c
      [] flag_code = 6 -> d17b_write(c, 40, BitAnd(operand_sector - 2, 127), value)
      [] flag_code = 8 -> [c EXCEPT !.E[BitAnd(operand_sector, 7)] = value]
      [] flag_code = 10 -> [c EXCEPT !.L = value]
      [] flag_code = 12 -> [c EXCEPT !.H[BitAnd(operand_sector, 15)] = value]
      [] flag_code = 14 -> [c EXCEPT !.U = value]
      [] OTHER -> c

(***************************************************************************)
(* Instruction execution.                                                  *)
(***************************************************************************)
\* the two 12-bit lanes of a word
LaneHi(w) == BitAnd(Shr(w, 12), 4095)
LaneLo(w) == BitAnd(w, 4095)

\* mutant: the recombined lanes are not masked to the word
SplitAddUnmasked(a, operand) ==
    BitOr(Shl(LaneHi(a) + LaneHi(operand), 12),
          BitAnd(LaneLo(a) + LaneLo(operand), 4095))

\* SAD: the two lane sums recombined and masked to the word
SplitAdd(a, operand) ==
    BitAnd(BitOr(Shl(LaneHi(a) + LaneHi(operand), 12),
                 BitAnd(LaneLo(a) + LaneLo(operand), 4095)),
           WORD_MASK)

\* SSU: a_hi - o_hi wraps in uint32; << 12 and & WORD_MASK keep its low 12 bits
SplitSub(a, operand) ==
    BitAnd(BitOr(Shl(Low(LaneHi(a) - LaneHi(operand), 12), 12),
                 Low(LaneLo(a) - LaneLo(operand), 12)),
           WORD_MASK)

\* "Handle flag store if flag bit set"
FlagStored(c, instr) ==
    IF GET_FLAG(instr) # 0
    THEN d17b_flag_store(c, GET_FLAG_CODE(instr), GET_SECTOR(instr))
    ELSE c

\* the switch of d17b_exec_arithmetic on the operand read at its entry
ArithmeticOp(f, instr, operand) ==
    LET opcode == GET_OPCODE(instr)
        channel == GET_CHANNEL(instr)
        sector == GET_SECTOR(instr)
    IN CASE opcode = OP_CLA -> [f EXCEPT !.A = operand]
         [] opcode = OP_ADD -> [f EXCEPT !.A = d17b_add_24bit(f.A, operand)]
         [] opcode = OP_SUB -> [f EXCEPT !.A = d17b_sub_24bit(f.A, operand)]
         [] opcode = OP_SAD -> [f EXCEPT !.A = SplitAdd(f.A, operand)]
         [] opcode = OP_SSU -> [f EXCEPT !.A = SplitSub(f.A, operand)]
         [] opcode = OP_MPY -> d17b_multiply(f, operand, FALSE)
         [] opcode = OP_SMP -> d17b_multiply(f, operand, TRUE)
         [] opcode = OP_DIV_MPM ->
              IF f.d37c_mode
              THEN d17b_divide(f, operand)
              ELSE d17b_multiply([f EXCEPT !.A = BitAnd(f.A, MAGNITUDE_MASK)],
                                 BitAnd(operand, MAGNITUDE_MASK), FALSE)
         [] opcode = OP_STO -> d17b_write(f, channel, sector, f.A)
         [] OTHER -> f

\* mutant: the flag store comes after the operation
ExecArithmeticStoreLast(c, instr) ==
    FlagStored(ArithmeticOp(c, instr,
                            d17b_read(c, GET_CHANNEL(instr), GET_SECTOR(instr))),
               instr)

\* the operand is read, the flag store is done, then the operation
d17b_exec_arithmetic(c, instr) ==
    ArithmeticOp(FlagStored(c, instr), instr,
                 d17b_read(c, GET_CHANNEL(instr), GET_SECTOR(instr)))

\* ALC: ((val << n) | (val >> (24 - n))) & WORD_MASK
RotateLeft(val, n) ==
    BitAnd(BitOr(ShlMask24(val, n), Shr(val, 24 - n)), WORD_MASK)

\* mutant: the bits shifted out on the right are lost
RotateRightNoWrap(val, n) == BitAnd(Shr(val, n), WORD_MASK)

\* ARC: ((val >> n) | (val << (24 - n))) & WORD_MASK
RotateRight(val, n) ==
    BitAnd(BitOr(Shr(val, n), ShlMask24(val, 24 - n)), WORD_MASK)

\* mutant: bit 3 of the sub-opcode is taken as set
ShiftSubOpcodeBit3Set(sector) == BitOr(BitAnd(Shr(sector, 3), 31), 8)

\* the shift sub-opcode: (sector >> 3) & 0x1F
ShiftSubOpcode(sector) == BitAnd(Shr(sector, 3), 31)

d17b_exec_shift(c, instr) ==
    LET sector == GET_SECTOR(instr)
        sub_op == ShiftSubOpcode(sector)
        count0 == BitAnd(sector, 7)
        shift_count == IF count0 = 0 THEN 8 ELSE count0
        hi == LaneHi(c.A)
        lo == LaneLo(c.A)
        val == BitAnd(c.A, WORD_MASK)
    IN CASE sub_op = 8 ->
              [c EXCEPT !.A = BitOr(Shl(BitAnd(Shl(hi, shift_count), 4095), 12),
                                    BitAnd(Shl(lo, shift_count), 4095))]
         [] sub_op = 9 -> [c EXCEPT !.A = ShlMask24(c.A, shift_count)]
         [] sub_op = 10 ->
              [c EXCEPT !.A = BitOr(Shl(BitAnd(Shl(hi, shift_count), 4095), 12),
                                    BitAnd(c.A, 4095))]
         [] sub_op = 11 ->
              IF c.d37c_mode
              THEN [c EXCEPT !.A = RotateLeft(val, shift_count)]
              ELSE [c EXCEPT !.A = BitOr(BitAnd(c.A, 16773120),
                                         BitAnd(Shl(lo, shift_count), 4095))]
         [] sub_op = 12 ->
              [c EXCEPT !.A = BitOr(Shl(Shr(hi, shift_count), 12),
                                    Shr(lo, shift_count))]
         [] sub_op = 13 -> [c EXCEPT !.A = Shr(c.A, shift_count)]
         [] sub_op = 14 ->
              [c EXCEPT !.A = BitOr(Shl(Shr(hi, shift_count), 12), BitAnd(c.A, 4095))]
         [] sub_op = 15 ->
              IF c.d37c_mode
              THEN [c EXCEPT !.A = RotateRight(val, shift_count)]
              ELSE [c EXCEPT !.A = BitOr(BitAnd(c.A, 16773120),
                                         Shr(lo, shift_count))]
         [] OTHER -> c

\* a 12-bit lane as the int16_t the code sign-extends it to
SignExtend12(x) == IF BitAnd(x, 2048) # 0 THEN x - 4096 ELSE x

\* the two limit tests of SCL, in the code's order
SclLimit(a, o) ==
    LET a1 == IF a > o THEN o ELSE a
    IN IF a1 < -o THEN -o ELSE a1

d17b_exec_control(c, instr) ==
    LET opcode == GET_OPCODE(instr)
        operand == d17b_read(c, GET_CHANNEL(instr), GET_SECTOR(instr))
        a_hi == SclLimit(SignExtend12(LaneHi(c.A)), SignExtend12(LaneHi(operand)))
        a_lo == SclLimit(SignExtend12(LaneLo(c.A)), SignExtend12(LaneLo(operand)))
    IN IF opcode = OP_SCL
       THEN [c EXCEPT !.A = BitOr(Shl(Low(a_hi, 12), 12), Low(a_lo, 12))]
       ELSE c

\* (int16_t)x
Int16(x) == ((x + 32768) % 65536) - 32768

\* mutant: the value goes to the slot after the one named
PublishNext(out, slot, value) == [out EXCEPT ![slot + 1] = value]

\* cpu->voltage_out[slot] = value, cpu->binary_out[slot] = value
Publish(out, slot, value) == [out EXCEPT ![slot] = value]

\* mutant: the sub-opcode is taken from five bits of the sector field
SubOpcode5Bits(sector) == BitAnd(Shr(sector, 1), 31)

\* the special sub-opcode: (sector >> 1) & 0x3F
SubOpcode(sector) == BitAnd(Shr(sector, 1), 63)

d17b_exec_special(c, instr) ==
    LET sector == GET_SECTOR(instr)
        sub_op == SubOpcode(sector)
        volt == Int16(to_signed(Shr(c.A, 15)))
        bin == BitAnd(Shr(c.A, 22), 3)
    IN CASE sub_op = 16 -> IF c.d37c_mode THEN [c EXCEPT !.A = BitOr(c.A, c.L)] ELSE c
         [] sub_op = 17 -> [c EXCEPT !.A = BitAnd(c.A, c.L)]
         [] sub_op = 18 -> [c EXCEPT !.A = BitOr(SIGN_BIT, BitAnd(c.A, MAGNITUDE_MASK))]
         [] sub_op = 19 -> [c EXCEPT !.A = d17b_complement(c.A)]
         [] sub_op = 9 -> [c EXCEPT !.halted = TRUE]
         [] sub_op = 8 -> [c EXCEPT !.detector = FALSE]
         [] sub_op = 25 -> [c EXCEPT !.countdown_enabled = TRUE]
         [] sub_op = 24 -> [c EXCEPT !.countdown_enabled = FALSE]
         [] sub_op \in {30, 31} -> [c EXCEPT !.P = BitAnd(sector, 7)]
         [] sub_op = 21 -> [c EXCEPT !.A = c.discrete_in_a]
         [] sub_op = 20 -> [c EXCEPT !.A = c.discrete_in_b]
         [] sub_op = 11 -> [c EXCEPT !.discrete_out_a = c.A]
         [] sub_op = 12 -> [c EXCEPT !.voltage_out = Publish(c.voltage_out, 0, volt)]
         [] sub_op = 13 -> [c EXCEPT !.voltage_out = Publish(c.voltage_out, 1, volt)]
         [] sub_op = 14 -> [c EXCEPT !.voltage_out = Publish(c.voltage_out, 2, volt)]
         [] sub_op = 4 -> [c EXCEPT !.binary_out = Publish(c.binary_out, 0, bin)]
         [] sub_op = 5 -> [c EXCEPT !.binary_out = Publish(c.binary_out, 1, bin)]
         [] sub_op = 1 -> [c EXCEPT !.binary_out = Publish(c.binary_out, 2, bin)]
         [] OTHER -> c

(***************************************************************************)
(* Fetch-step driver.                                                      *)
(***************************************************************************)
\* mutant: the channel is not masked to its 6 bits
FetchChannelUnmasked(c) == Shr(c.I, 9)

\* where step fetches from
FetchChannel(c) == BitAnd(Shr(c.I, 9), 63)
FetchSector(c) == BitAnd(Shr(c.I, 2), 127)
Fetch(c) == d17b_read(c, FetchChannel(c), FetchSector(c))

\* mutant: opcode 2 tests the sign of A in both modes
JumpedOnSign(c, instr) ==
    LET opcode == GET_OPCODE(instr)
    IN \/ opcode = OP_TRA
       \/ /\ opcode \in {OP_TMI_TZE, OP_TMI}
          /\ BitAnd(c.A, SIGN_BIT) # 0

\* whether the instruction just fetched transfers control (the code's jumped flag)
Jumped(c, instr) ==
    LET opcode == GET_OPCODE(instr)
    IN \/ opcode = OP_TRA
       \/ /\ opcode = OP_TMI_TZE
          /\ IF c.d37c_mode THEN BitAnd(c.A, MAGNITUDE_MASK) = 0
                            ELSE BitAnd(c.A, SIGN_BIT) # 0
       \/ /\ opcode = OP_TMI
          /\ BitAnd(c.A, SIGN_BIT) # 0

\* the jump target a transfer loads into I
JumpTarget(instr) == BitOr(Shl(GET_CHANNEL(instr), 9), Shl(GET_SECTOR(instr), 2))

\* mutant: Sp is not moved up to the sector field
NextLocationUnshifted(channel, next_sp) == BitOr(Shl(channel, 9), next_sp)

\* I after an instruction that did not jump
NextLocation(channel, next_sp) == BitOr(Shl(channel, 9), Shl(next_sp, 2))

\* the switch of d17b_step
Dispatch(c, instr) ==
    LET opcode == GET_OPCODE(instr)
    IN CASE opcode = OP_SHIFT -> d17b_exec_shift(c, instr)
         [] opcode = OP_SPECIAL -> d17b_exec_special(c, instr)
         [] opcode \in {OP_TRA, OP_TMI_TZE, OP_TMI} ->
              IF Jumped(c, instr) THEN [c EXCEPT !.I = JumpTarget(instr)] ELSE c
         [] opcode = OP_SCL -> d17b_exec_control(c, instr)
         [] OTHER -> d17b_exec_arithmetic(c, instr)

\* mutant: the counter is decremented at zero as well
CountdownBelowZero(c) ==
    IF c.countdown_enabled
    THEN c.fine_countdown - 1
    ELSE c.fine_countdown

\* the countdown update that ends a step
Countdown(c) ==
    IF c.countdown_enabled /\ c.fine_countdown > 0
    THEN c.fine_countdown - 1
    ELSE c.fine_countdown

\* mutant: the disc position is not wrapped at the end of the track
AdvanceSectorNoWrap(sector) == sector + 1

\* "Advance disc position": (current_sector + 1) & 0x7F
AdvanceSector(sector) == BitAnd(sector + 1, 127)

\* mutant: step does not look at the halted latch
StepRefusesNever(c) == FALSE

\* the early return of d17b_step
StepRefuses(c) == c.halted

\* d17b_step: the struct after the call
d17b_step(c) ==
    IF StepRefuses(c) THEN c
    ELSE LET channel == FetchChannel(c)
             instr == Fetch(c)
             next_sp == GET_SP(instr)
             e == Dispatch(c, instr)
             n == IF Jumped(c, instr) THEN e
                  ELSE [e EXCEPT !.I = NextLocation(channel, next_sp)]
         IN [n EXCEPT !.current_sector = AdvanceSector(n.current_sector),
                      !.cycle_count = n.cycle_count + 1,
                      !.fine_countdown = Countdown(n)]

\* d17b_step's return value
StepResult(c) == IF StepRefuses(c) THEN -1 ELSE 0

\* mutant: the loop takes one turn more than the budget
RunContinuesOneMore(c, start, max_cycles) ==
    ~c.halted /\ (c.cycle_count - start) <= max_cycles

\* whether the while loop of d17b_run takes another turn
RunContinues(c, start, max_cycles) ==
    ~c.halted /\ (c.cycle_count - start) < max_cycles

\* d17b_run: the struct after the call
RECURSIVE RunLoop(_, _, _)
RunLoop(c, start, max_cycles) ==
    IF RunContinues(c, start, max_cycles) /\ StepResult(c) >= 0
    THEN RunLoop(d17b_step(c), start, max_cycles)
    ELSE c

d17b_run(c, max_cycles) == RunLoop(c, c.cycle_count, max_cycles)

\* d17b_run's return value
RunResult(c) == IF c.halted THEN -1 ELSE 0

(***************************************************************************)
(* The host: what src/src/main.c loads and sets before it steps or runs.   *)
(***************************************************************************)
MaxCycles == 6
MaxBudget == 4

HPR(sp) == ENCODE_INSTR(OP_SPECIAL, 0, sp, 0, 18)

\* load_test_program: CLA 00,001; ADD 00,003; STO 00,006; HPR
AddProgram ==
    << <<0, 0, ENCODE_INSTR(OP_CLA, 0, 2, 0, 1)>>,
       <<0, 1, 5>>,
       <<0, 2, ENCODE_INSTR(OP_ADD, 0, 4, 0, 3)>>,
       <<0, 3, 3>>,
       <<0, 4, ENCODE_INSTR(OP_STO, 0, 5, 0, 6)>>,
       <<0, 5, HPR(6)>>,
       <<0, 6, 0>> >>

\* run_test's division program, preceded by a divide by zero
DivProgram ==
    << <<1, 0, ENCODE_INSTR(OP_DIV_MPM, 0, 1, 1, 16)>>,
       <<1, 16, 0>>,
       <<1, 1, ENCODE_INSTR(OP_DIV_MPM, 0, 2, 1, 17)>>,
       <<1, 17, 4>>,
       <<1, 2, HPR(3)>> >>

\* conditional and unconditional transfers, one of them out of the grid
JumpProgram ==
    << <<2, 0, ENCODE_INSTR(OP_TMI_TZE, 0, 1, 2, 20)>>,
       <<2, 1, ENCODE_INSTR(OP_TMI, 0, 2, 3, 127)>>,
       <<2, 2, ENCODE_INSTR(OP_TRA, 0, 3, 63, 127)>>,
       <<2, 20, HPR(0)>>,
       <<3, 127, ENCODE_INSTR(OP_TRA, 0, 0, 2, 20)>> >>

\* ADD with the flag bit set: operand sectors with S & 7 = 5, and the two
\* low bits of the word that GET_FLAG_CODE reads set as well
FlagProgram ==
    << <<4, 0, ENCODE_INSTR(OP_CLA, 0, 1, 4, 16)>>,
       <<4, 16, 7>>,
       <<4, 1, ENCODE_INSTR(OP_ADD, 1, 2, 4, 21)>>,
       <<4, 21, 3>>,
       <<4, 2, ENCODE_INSTR(OP_ADD, 1, 3, 4, 21) + 2>>,
       <<4, 3, ENCODE_INSTR(OP_ADD, 1, 4, 4, 22) + 2>>,
       <<4, 22, MAGNITUDE_MASK>>,
       <<4, 4, HPR(5)>> >>

\* shifts, a rotate, split arithmetic and a store into the L register
WordProgram ==
    << <<5, 0, ENCODE_INSTR(OP_SHIFT, 0, 1, 0, 9 * 8)>>,
       <<5, 1, ENCODE_INSTR(OP_SHIFT, 0, 2, 0, 11 * 8 + 1)>>,
       <<5, 2, ENCODE_INSTR(OP_SAD, 0, 3, 5, 16)>>,
       <<5, 16, WORD_MASK>>,
       <<5, 3, ENCODE_INSTR(OP_SSU, 0, 4, 5, 17)>>,
       <<5, 17, 4097>>,
       <<5, 4, ENCODE_INSTR(OP_STO, 0, 5, CHAN_L_REG, 0)>>,
       <<5, 5, HPR(0)>> >>

\* discrete input, multiply, split compare, complement and a flagged store
IoProgram ==
    << <<6, 0, ENCODE_INSTR(OP_SPECIAL, 0, 1, 0, 2 * 21)>>,
       <<6, 1, ENCODE_INSTR(OP_MPY, 0, 2, 6, 16)>>,
       <<6, 16, WORD_MASK>>,
       <<6, 2, ENCODE_INSTR(OP_SCL, 0, 3, 6, 17)>>,
       <<6, 17, 4097>>,
       <<6, 3, ENCODE_INSTR(OP_SPECIAL, 0, 4, 0, 2 * 19)>>,
       <<6, 4, ENCODE_INSTR(OP_STO, 1, 5, CHAN_U_LOOP, 0) + 6>>,
       <<6, 5, HPR(0)>> >>

\* each program with the address the host starts it at
Programs ==
    { [cells |-> AddProgram, entry |-> 0],
      [cells |-> DivProgram, entry |-> 128],
      [cells |-> JumpProgram, entry |-> 256],
      [cells |-> FlagProgram, entry |-> 512],
      [cells |-> WordProgram, entry |-> 640],
      [cells |-> IoProgram, entry |-> 768] }

\* cpu->memory[c][s] = w for every cell of a program
RECURSIVE LoadCells(_, _, _)
LoadCells(mem, prog, i) ==
    IF i > Len(prog) THEN mem
    ELSE LoadCells(MemPut(mem, prog[i][1], prog[i][2], prog[i][3]), prog, i + 1)

\* values the host places in A, L and the discrete input latches
HostA == {0, SIGN_BIT, SIGN_BIT + 1, MAGNITUDE_MASK, WORD_MASK}
HostL == {0, 24}
HostIn == {0, 11259375}

\* addresses of the interactive 'l' command (I = addr << 2), the second one past
\* the 13 bits of a channel and sector
HostAddr == {0, 8192 + 128}

\* the state is being set up: nothing has run since init or reset
SettingUp == cpu.cycle_count = 0 /\ ~cpu.halted

\* what the last operation saw before it acted
Pre(c) ==
    [A |-> c.A, halted |-> c.halted, error |-> c.error,
     d37c_mode |-> c.d37c_mode, cycle_count |-> c.cycle_count]

\* a host store: no operation of the core was called
HostRecord ==
    [op |-> "host", arg |-> 0, ret |-> 0, instr |-> 0, jumped |-> FALSE,
     pre |-> Pre(ZeroCpu)]

Record(op, arg, ret, instr, jumped) ==
    [op |-> op, arg |-> arg, ret |-> ret, instr |-> instr, jumped |-> jumped,
     pre |-> Pre(cpu)]

UnitIdle == UNCHANGED <<ua, ub, ur, uop>>

Init ==
    /\ cpu = d17b_init
    /\ last = [op |-> "init", arg |-> 0, ret |-> 0, instr |-> 0, jumped |-> FALSE,
               pre |-> Pre(ZeroCpu)]
    /\ ua = 0 /\ ub = 0 /\ ur = 0 /\ uop = "none"

\* d17b_init(&cpu)
InitOp ==
    /\ cpu' = d17b_init
    /\ last' = Record("init", 0, 0, 0, FALSE)
    /\ UnitIdle

\* d17b_reset(&cpu)
Reset ==
    /\ cpu' = d17b_reset(cpu)
    /\ last' = Record("reset", 0, 0, 0, FALSE)
    /\ UnitIdle

\* the host stores a program into the memory of a fresh machine and points
\* I at its first instruction
LoadProgram ==
    /\ SettingUp
    /\ cpu.memory = ZeroMemory
    /\ \E prog \in Programs :
          cpu' = [cpu EXCEPT !.memory = LoadCells(cpu.memory, prog.cells, 1),
                             !.I = Shl(prog.entry, 2)]
    /\ last' = HostRecord
    /\ UnitIdle

\* cpu.A = ...; cpu.L = ...
SetAL ==
    /\ SettingUp
    /\ \E a \in HostA, l \in HostL : cpu' = [cpu EXCEPT !.A = a, !.L = l]
    /\ last' = HostRecord
    /\ UnitIdle

\* cpu.d37c_mode = ...
SetMode ==
    /\ SettingUp
    /\ \E m \in BOOLEAN : cpu' = [cpu EXCEPT !.d37c_mode = m]
    /\ last' = HostRecord
    /\ UnitIdle

\* cpu->I = addr << 2
LoadAddr ==
    /\ SettingUp
    /\ \E addr \in HostAddr : cpu' = [cpu EXCEPT !.I = Shl(addr, 2)]
    /\ last' = HostRecord
    /\ UnitIdle

\* the host latches the discrete inputs before a step
SetInputs ==
    /\ SettingUp
    /\ \E v \in HostIn : cpu' = [cpu EXCEPT !.discrete_in_a = v, !.discrete_in_b = v]
    /\ last' = HostRecord
    /\ UnitIdle

\* d17b_step(&cpu)
Step ==
    /\ cpu.cycle_count < MaxCycles
    /\ cpu' = d17b_step(cpu)
    /\ last' = Record("step", 0, StepResult(cpu),
                      IF StepRefuses(cpu) THEN 0 ELSE Fetch(cpu),
                      ~StepRefuses(cpu) /\ Jumped(cpu, Fetch(cpu)))
    /\ UnitIdle

\* d17b_run(&cpu, max_cycles)
Run ==
    /\ \E max_cycles \in 0..MaxBudget :
          /\ cpu.cycle_count + max_cycles <= MaxCycles
          /\ cpu' = d17b_run(cpu, max_cycles)
          /\ last' = Record("run", max_cycles, RunResult(cpu'), 0, FALSE)
    /\ UnitIdle

Next ==
    \/ InitOp
    \/ Reset
    \/ LoadProgram
    \/ SetAL
    \/ SetMode
    \/ LoadAddr
    \/ SetInputs
    \/ Step
    \/ Run

Spec == Init /\ [][Next]_vars

(***************************************************************************)
(* Unit harness for the pure word functions: operand words drawn from a    *)
(* set of boundary values, each function applied to them.                  *)
(***************************************************************************)
UnitWords ==
    {0, 1, 5, 8, 4194304, MAGNITUDE_MASK - 1, MAGNITUDE_MASK,
     SIGN_BIT, SIGN_BIT + 1, SIGN_BIT + 5, SIGN_BIT + 8, SIGN_BIT + 4194304,
     WORD_MASK - 1, WORD_MASK}

UnitInit ==
    /\ cpu = d17b_init
    /\ last = [op |-> "init", arg |-> 0, ret |-> 0, instr |-> 0, jumped |-> FALSE,
               pre |-> Pre(ZeroCpu)]
    /\ ua \in UnitWords
    /\ ub \in UnitWords
    /\ ur = 0
    /\ uop = "none"

\* ur = d17b_add_24bit(ua, ub)
UnitAdd ==
    /\ ur' = d17b_add_24bit(ua, ub)
    /\ uop' = "add"
    /\ UNCHANGED <<cpu, last, ua, ub>>

\* ur = d17b_sub_24bit(ua, ub)
UnitSub ==
    /\ ur' = d17b_sub_24bit(ua, ub)
    /\ uop' = "sub"
    /\ UNCHANGED <<cpu, last, ua, ub>>

UnitNext ==
    \/ UnitAdd
    \/ UnitSub

SpecUnit == UnitInit /\ [][UnitNext]_vars

(***************************************************************************)
(* Instruction harness: the set-ups of run_test in src/src/main.c, each    *)
(* with its words drawn from a set of boundary values.  The host resets    *)
(* the machine, sets the mode, A and L, stores a short program in channel  *)
(* 0, points I at it, and then steps or runs.  ua and ub keep the two      *)
(* words the set-up was built from.                                        *)
(***************************************************************************)
\* words placed in A and in the operand cell
InstrWords ==
    UnitWords \cup {3, 4, 24, 1193046, 11184810}

\* words placed in L
InstrL == {0, 24, MAGNITUDE_MASK, SIGN_BIT + 24}

\* run_test's division test: DIV 00,016; HPR, with A, L and the divisor given
DivSetups ==
    { [cells |-> << <<0, 0, ENCODE_INSTR(OP_DIV_MPM, 0, 1, 0, 16)>>,
                    <<0, 16, d>>,
                    <<0, 1, HPR(2)>> >>,
       A |-> a, L |-> l, x |-> a, y |-> d] :
      a \in InstrWords, l \in InstrL, d \in InstrWords }

\* run_test's rotate test, followed by the rotate the other way: ALC k; ARC k; HPR
RotateCells(k) ==
    << <<0, 0, ENCODE_INSTR(OP_SHIFT, 0, 1, 0, 11 * 8 + k)>>,
       <<0, 1, ENCODE_INSTR(OP_SHIFT, 0, 2, 0, 15 * 8 + k)>>,
       <<0, 2, HPR(3)>> >>

RotateSetups ==
    { [cells |-> RotateCells(k), A |-> a, L |-> 0, x |-> a, y |-> k] :
      a \in InstrWords, k \in 0..7 }

\* a conditional transfer of either opcode to 00,020, HPR on both paths
JumpSetups ==
    { [cells |-> << <<0, 0, ENCODE_INSTR(op, 0, 1, 0, 20)>>,
                    <<0, 1, HPR(2)>>,
                    <<0, 20, HPR(21)>> >>,
       A |-> a, L |-> 0, x |-> a, y |-> op] :
      a \in InstrWords, op \in {OP_TMI_TZE, OP_TMI} }

\* load_test_program with its two data words given: CLA 00,001; ADD 00,003;
\* STO 00,006; HPR
AddCells(x, y) ==
    << <<0, 0, ENCODE_INSTR(OP_CLA, 0, 2, 0, 1)>>,
       <<0, 1, x>>,
       <<0, 2, ENCODE_INSTR(OP_ADD, 0, 4, 0, 3)>>,
       <<0, 3, y>>,
       <<0, 4, ENCODE_INSTR(OP_STO, 0, 5, 0, 6)>>,
       <<0, 5, HPR(6)>>,
       <<0, 6, 0>> >>

AddSetups ==
    { [cells |-> AddCells(x, y), A |-> 0, L |-> 0, x |-> x, y |-> y] :
      x \in InstrWords, y \in InstrWords }

InstrSetups == DivSetups \cup RotateSetups \cup JumpSetups \cup AddSetups

\* d17b_reset; cpu.d37c_mode = m; cpu.A = ...; cpu.L = ...; the memory stores;
\* cpu.I = 0
SetUp(setup, m) ==
    [d17b_init EXCEPT !.d37c_mode = m,
                      !.A = setup.A,
                      !.L = setup.L,
                      !.memory = LoadCells(ZeroMemory, setup.cells, 1),
                      !.I = 0]

InstrInit ==
    /\ \E setup \in InstrSetups, m \in BOOLEAN :
          /\ cpu = SetUp(setup, m)
          /\ ua = setup.x
          /\ ub = setup.y
    /\ last = HostRecord
    /\ ur = 0
    /\ uop = "none"

InstrNext ==
    \/ Step
    \/ Run

SpecInstr == InstrInit /\ [][InstrNext]_vars

(***************************************************************************)
(* Access harness: the host calls d17b_write and then d17b_read, or        *)
(* d17b_read alone, on a machine that is fresh or whose loops and memory   *)
(* hold known words.  ua is the value written, ub the <<channel, sector>>  *)
(* written to, ur the value read; last.arg holds the arguments of the      *)
(* last call.                                                              *)
(***************************************************************************)
\* the loop channels, one channel of the grid, and channels past the grid
AccessChannels ==
    {0, CHAN_F_LOOP, CHAN_H_LOOP, CHAN_E_LOOP} \cup (CHANNELS..63)

\* sectors written, sectors read (uint8_t: 129 is past the 128 of a channel)
WriteSectors == {1, 2, 127}
ReadSectors == {1, 2, 5, 9, 17, 129}

\* values written (uint32_t: the last one has bit 24 set)
AccessValues == {5, WORD_MASK, 16777216 + 7}

\* a machine whose registers, loops and memory the host has stored words in,
\* the memory under the loop channels 42, 44 and 46 included
Filled ==
    [d17b_init EXCEPT
        !.A = 11, !.L = 12, !.U = 13,
        !.F = [i \in 0..(F_LOOP_SIZE - 1) |-> 100 + i],
        !.E = [i \in 0..(E_LOOP_SIZE - 1) |-> 200 + i],
        !.H = [i \in 0..(H_LOOP_SIZE - 1) |-> 300 + i],
        !.V = [i \in 0..(V_LOOP_SIZE - 1) |-> 400 + i],
        !.R = [i \in 0..(R_LOOP_SIZE - 1) |-> 500 + i],
        !.memory = LoadCells(ZeroMemory,
                             << <<0, 1, 601>>, <<0, 2, 602>>, <<0, 5, 605>>,
                                <<CHAN_F_LOOP, 1, 701>>, <<CHAN_H_LOOP, 1, 702>>,
                                <<CHAN_E_LOOP, 1, 703>>, <<CHAN_F_LOOP, 5, 705>> >>,
                             1)]

AccessStarts == {d17b_init, Filled}

AccessInit ==
    /\ cpu \in AccessStarts
    /\ last = HostRecord
    /\ ua = 0 /\ ub = <<0, 0>> /\ ur = 0
    /\ uop = "none"

\* d17b_write(&cpu, channel, sector, value)
AccessWrite ==
    /\ uop = "none"
    /\ \E channel \in AccessChannels, sector \in WriteSectors, value \in AccessValues :
          /\ cpu' = d17b_write(cpu, channel, sector, value)
          /\ last' = Record("write", <<channel, sector, value>>, 0, 0, FALSE)
          /\ ua' = value
          /\ ub' = <<channel, sector>>
    /\ uop' = "write"
    /\ UNCHANGED ur

\* ur = d17b_read(&cpu, channel, sector)
AccessRead ==
    /\ uop \in {"none", "write"}
    /\ \E channel \in AccessChannels, sector \in ReadSectors :
          /\ ur' = d17b_read(cpu, channel, sector)
          /\ last' = Record("read", <<channel, sector>>,
                            d17b_read(cpu, channel, sector), 0, FALSE)
    /\ uop' = IF uop = "write" THEN "write, read" ELSE "read"
    /\ UNCHANGED <<cpu, ua, ub>>

AccessNext ==
    \/ AccessWrite
    \/ AccessRead

SpecAccess == AccessInit /\ [][AccessNext]_vars

(***************************************************************************)
(* Backing-storage harness: a program that lives in the F loop (channel    *)
(* 42) and stores to and loads from the H and E loops, on a machine whose  *)
(* main memory under channels 42, 44 and 46 the host has filled.  The host *)
(* steps it and calls d17b_write and d17b_read on the three channels.      *)
(***************************************************************************)
\* the loop channels whose numbers fall inside the grid
BackingChannels == {CHAN_F_LOOP, CHAN_H_LOOP, CHAN_E_LOOP}

\* F[0]: STO 54,001   F[1]: CLA 56,001   F[2]: ADD 52,002 flagged, the low
\* three bits of the word being 2 (store A in F[sector & 3])   F[3]: TRA 52,000
LoopProgram ==
    <<ENCODE_INSTR(OP_STO, 0, 1, CHAN_H_LOOP, 1),
      ENCODE_INSTR(OP_CLA, 0, 2, CHAN_E_LOOP, 1),
      ENCODE_INSTR(OP_ADD, 1, 3, CHAN_F_LOOP, 2) + 2,
      ENCODE_INSTR(OP_TRA, 0, 0, CHAN_F_LOOP, 0)>>

\* the memory under the three channels: HPR under every word of the program
BackingCells ==
    << <<CHAN_F_LOOP, 0, HPR(0)>>, <<CHAN_F_LOOP, 1, HPR(0)>>,
       <<CHAN_F_LOOP, 2, HPR(0)>>, <<CHAN_F_LOOP, 3, HPR(0)>>,
       <<CHAN_H_LOOP, 1, 702>>, <<CHAN_E_LOOP, 1, 703>>,
       <<0, 1, 601>> >>

BackingStart ==
    [Filled EXCEPT !.F = [i \in 0..(F_LOOP_SIZE - 1) |-> LoopProgram[i + 1]],
                   !.memory = LoadCells(ZeroMemory, BackingCells, 1),
                   !.I = Shl(CHAN_F_LOOP, 9)]

BackingInit ==
    /\ cpu = BackingStart
    /\ last = HostRecord
    /\ ua = 0 /\ ub = 0 /\ ur = 0
    /\ uop = "none"

\* d17b_write(&cpu, channel, 1, 5)
BackingWrite ==
    /\ \E channel \in BackingChannels :
          /\ cpu' = d17b_write(cpu, channel, 1, 5)
          /\ last' = Record("write", <<channel, 1, 5>>, 0, 0, FALSE)
    /\ UnitIdle

\* ur = d17b_read(&cpu, channel, sector)
BackingRead ==
    /\ \E channel \in BackingChannels, sector \in {1, 5} :
          /\ ur' = d17b_read(cpu, channel, sector)
          /\ last' = Record("read", <<channel, sector>>,
                            d17b_read(cpu, channel, sector), 0, FALSE)
    /\ UNCHANGED <<cpu, ua, ub, uop>>

BackingNext ==
    \/ Step
    \/ BackingWrite
    \/ BackingRead

SpecBacking == BackingInit /\ [][BackingNext]_vars

(***************************************************************************)
(* Loop harness: a counting loop that runs for more than one revolution of *)
(* the disc (128 word times) before it halts, stepped and run with small   *)
(* and large budgets, and reset on the way.                                *)
(***************************************************************************)
MaxLoopCycles == 140

\* 00,000: SUB 00,020 (one)        00,001: DIV 00,021 (zero: latches error)
\* 00,002: TZE 00,004              00,003: TRA 00,000
\* 00,004: HPR
LoopCells ==
    << <<0, 0, ENCODE_INSTR(OP_SUB, 0, 1, 0, 16)>>,
       <<0, 16, 1>>,
       <<0, 1, ENCODE_INSTR(OP_DIV_MPM, 0, 2, 0, 17)>>,
       <<0, 2, ENCODE_INSTR(OP_TMI_TZE, 0, 3, 0, 4)>>,
       <<0, 3, ENCODE_INSTR(OP_TRA, 0, 0, 0, 0)>>,
       <<0, 4, HPR(5)>> >>

\* the count the loop starts from: four word times are spent per count
LoopCounts == {1, 2, 33}

\* budgets passed to d17b_run
LoopBudgets == {0, 1, 3, 40}

LoopInit ==
    /\ \E n \in LoopCounts :
          cpu = SetUp([cells |-> LoopCells, A |-> n, L |-> 0], TRUE)
    /\ last = HostRecord
    /\ ua = 0 /\ ub = 0 /\ ur = 0
    /\ uop = "none"

\* d17b_step(&cpu)
LoopStep ==
    /\ cpu.cycle_count < MaxLoopCycles
    /\ cpu' = d17b_step(cpu)
    /\ last' = Record("step", 0, StepResult(cpu),
                      IF StepRefuses(cpu) THEN 0 ELSE Fetch(cpu),
                      ~StepRefuses(cpu) /\ Jumped(cpu, Fetch(cpu)))
    /\ UnitIdle

\* d17b_run(&cpu, max_cycles)
LoopRun ==
    /\ \E max_cycles \in LoopBudgets :
          /\ cpu.cycle_count + max_cycles <= MaxLoopCycles
          /\ cpu' = d17b_run(cpu, max_cycles)
          /\ last' = Record("run", max_cycles, RunResult(cpu'), 0, FALSE)
    /\ UnitIdle

LoopNext ==
    \/ LoopStep
    \/ LoopRun
    \/ Reset

SpecLoop == LoopInit /\ [][LoopNext]_vars

(***************************************************************************)
(* Operation harness: short programs, one per instruction family, on a     *)
(* machine whose loops hold known words.  As in the instruction harness    *)
(* the host sets the mode, A, L, the countdown and the program, points I   *)
(* at 00,000, and steps or runs; ua and ub keep the set-up's two words.    *)
(***************************************************************************)
\* special-family words: EFC is 40 62 (sub-opcode 0x19), HFC 40 60 (0x18)
EFC(sp) == ENCODE_INSTR(OP_SPECIAL, 0, sp, 0, 2 * 25)
HFC(sp) == ENCODE_INSTR(OP_SPECIAL, 0, sp, 0, 2 * 24)

\* EFC; ANA; HFC; COM; EFC; HPR with the fine countdown at n
CountdownSetups ==
    { [cells |-> << <<0, 0, EFC(1)>>,
                    <<0, 1, ENCODE_INSTR(OP_SPECIAL, 0, 2, 0, 2 * 17)>>,
                    <<0, 2, HFC(3)>>,
                    <<0, 3, ENCODE_INSTR(OP_SPECIAL, 0, 4, 0, 2 * 19)>>,
                    <<0, 4, EFC(5)>>,
                    <<0, 5, HPR(6)>> >>,
       A |-> 5, L |-> 12, countdown |-> n, x |-> n, y |-> 0] :
      n \in {0, 1, 3} }

\* words whose 12-bit lanes hold 0, 3, 5, -1, -5, -7, 2047 and -2048
LaneWords ==
    {0, 3, 4095, 4091, 7 * 4096 + 2047, 5 * 4096 + 5, 8390656, 16752633,
     16760827, 8386559}

\* SCL 00,020; HPR with A and the operand given
SclSetups ==
    { [cells |-> << <<0, 0, ENCODE_INSTR(OP_SCL, 0, 1, 0, 16)>>,
                    <<0, 16, o>>,
                    <<0, 1, HPR(2)>> >>,
       A |-> a, L |-> 12, countdown |-> 0, x |-> a, y |-> o] :
      a \in LaneWords, o \in LaneWords }

\* words multiplied: zeros of both signs, small values, values in bits 23..14
\* (1, 3 and 5 at bit 14), and the largest magnitudes
MulWords ==
    {0, 1, 5, 16384, 49152, 81920 + 1, 4194304, MAGNITUDE_MASK,
     SIGN_BIT, SIGN_BIT + 1, SIGN_BIT + 16384, SIGN_BIT + 49152, WORD_MASK}

\* SMP 00,020; HPR and MPY 00,020; HPR with A and the operand given
MulSetups ==
    { [cells |-> << <<0, 0, ENCODE_INSTR(op, 0, 1, 0, 16)>>,
                    <<0, 16, o>>,
                    <<0, 1, HPR(2)>> >>,
       A |-> a, L |-> 12, countdown |-> 0, x |-> a, y |-> o] :
      a \in MulWords, o \in MulWords, op \in {OP_SMP, OP_MPY} }

\* ADD 00,020; HPR and SUB 00,020; HPR on zeros of both signs and on 5, -5
ZeroSetups ==
    { [cells |-> << <<0, 0, ENCODE_INSTR(op, 0, 1, 0, 16)>>,
                    <<0, 16, o>>,
                    <<0, 1, HPR(2)>> >>,
       A |-> a, L |-> 12, countdown |-> 0, x |-> a, y |-> o] :
      a \in {0, SIGN_BIT, 5, SIGN_BIT + 5},
      o \in {0, SIGN_BIT, 5, SIGN_BIT + 5},
      op \in {OP_ADD, OP_SUB} }

\* the sub-opcodes d17b_exec_special has a case for
SpecialCases == {1, 4, 5, 8, 9, 11, 12, 13, 14, 16, 17, 18, 19, 20, 21, 24, 25, 30, 31}

\* shift instructions of sub-opcode 0..7, special instructions without a case,
\* and ORA
DefaultWords ==
    { ENCODE_INSTR(OP_SHIFT, flag, 2, chan, 8 * sub + count) :
      flag \in {0, 1}, chan \in {0, CHAN_F_LOOP}, sub \in 0..7, count \in {0, 5} }
    \cup
    { ENCODE_INSTR(OP_SPECIAL, flag, 2, chan, 2 * sub + low) :
      flag \in {0, 1}, chan \in {0, CHAN_F_LOOP},
      sub \in ((0..63) \ SpecialCases) \cup {16}, low \in {0, 1} }

\* EFC; the instruction; HPR, with the countdown at 0 or 3
DefaultSetups ==
    { [cells |-> << <<0, 0, EFC(1)>>,
                    <<0, 1, w>>,
                    <<0, 2, HPR(3)>> >>,
       A |-> 5, L |-> 12, countdown |-> n, x |-> n, y |-> w] :
      w \in DefaultWords, n \in {0, 3} }

\* the opcodes d17b_step hands to d17b_exec_arithmetic (3 has no case there)
ArithmeticOpcodes ==
    {3, OP_SMP, OP_MPY, OP_DIV_MPM, OP_CLA, OP_STO, OP_SAD, OP_ADD, OP_SSU,
     OP_SUB}

\* an arithmetic instruction on channel 0 or the F loop, with and without the
\* flag bit and the F-loop flag code, then HPR; the operand in memory is 3
FlagSetups ==
    { [cells |-> << <<0, 0, ENCODE_INSTR(op, flag, 1, chan, sec) + code>>,
                    <<0, 16, 3>>, <<0, 17,  3>>, <<0, 18, 3>>,
                    <<0, 1, HPR(2)>> >>,
       A |-> a, L |-> 12, countdown |-> 0, x |-> a, y |-> 3] :
      op \in ArithmeticOpcodes, flag \in {0, 1}, chan \in {0, CHAN_F_LOOP},
      sec \in {16, 17, 18}, code \in {0, 2}, a \in {7, SIGN_BIT + 3} }

\* EFC; TRA to a sector of one of the channels 54 octal and above, with the
\* countdown at 0 or 3
TransferSetups ==
    { [cells |-> << <<0, 0, EFC(1)>>,
                    <<0, 1, ENCODE_INSTR(OP_TRA, 0, 0, chan, sec)>> >>,
       A |-> 5, L |-> 12, countdown |-> n, x |-> chan, y |-> sec] :
      chan \in CHAN_H_LOOP..63, sec \in {0, 5, 127}, n \in {0, 3} }

OpSetups ==
    CountdownSetups \cup SclSetups \cup MulSetups \cup ZeroSetups
    \cup DefaultSetups \cup FlagSetups \cup TransferSetups

\* the host's stores on top of the machine whose loops hold words
OpSetUp(setup, m) ==
    [Filled EXCEPT !.d37c_mode = m,
                   !.A = setup.A,
                   !.L = setup.L,
                   !.fine_countdown = setup.countdown,
                   !.memory = LoadCells(ZeroMemory, setup.cells, 1),
                   !.I = 0]

OpInit ==
    /\ \E setup \in OpSetups, m \in BOOLEAN :
          /\ cpu = OpSetUp(setup, m)
          /\ ua = setup.x
          /\ ub = setup.y
    /\ last = HostRecord
    /\ ur = 0
    /\ uop = "none"

SpecOp == OpInit /\ [][InstrNext]_vars

(***************************************************************************)
(* One instruction on a machine whose latches the host has written.        *)
(***************************************************************************)
\* every special instruction, and the other families on the operand at 00,020
\* with and without a flag store
LatchWords ==
    { ENCODE_INSTR(OP_SPECIAL, 0, 1, 0, 2 * sub + low) :
      sub \in 0..63, low \in {0, 1} }
    \cup
    { ENCODE_INSTR(op, flag, 1, 0, 16) + code :
      op \in ArithmeticOpcodes \cup {OP_SHIFT, OP_SCL}, flag \in {0, 1},
      code \in {0, 2} }

\* the instruction; HPR, with A, the detector and the mode given
LatchSetups ==
    { [cells |-> << <<0, 0, w>>, <<0, 16, 3>>, <<0, 1, HPR(2)>> >>,
       A |-> a, detector |-> det, w |-> w] :
      w \in LatchWords, a \in {5, WORD_MASK}, det \in BOOLEAN }

\* the host's stores: the program, A, the input latches, the detector and the
\* fourth output slots
LatchSetUp(setup, m) ==
    [d17b_init EXCEPT !.d37c_mode = m,
                      !.A = setup.A,
                      !.L = 12,
                      !.discrete_in_a = 21,
                      !.discrete_in_b = 22,
                      !.detector = setup.detector,
                      !.voltage_out = [i \in 0..3 |-> IF i = 3 THEN 7 ELSE 0],
                      !.binary_out = [i \in 0..3 |-> IF i = 3 THEN 2 ELSE 0],
                      !.memory = LoadCells(ZeroMemory, setup.cells, 1),
                      !.I = 0]

LatchInit ==
    /\ \E setup \in LatchSetups, m \in BOOLEAN :
          /\ cpu = LatchSetUp(setup, m)
          /\ ua = setup.A
          /\ ub = setup.w
    /\ last = HostRecord
    /\ ur = 0
    /\ uop = "none"

LatchNext == Step \/ Run \/ Reset

SpecLatch == LatchInit /\ [][LatchNext]_vars

(***************************************************************************)
(* Properties.                                                             *)
(***************************************************************************)
\* a word of 24 bits
IsWord(w) == w \in 0..WORD_MASK

\* every field d17b_reset assigns holds its cleared value
RuntimeCleared(c) ==
    /\ c.A = 0 /\ c.L = 0 /\ c.N = 0 /\ c.I = 0 /\ c.P = 0 /\ c.U = 0
    /\ \A i \in DOMAIN c.F : c.F[i] = 0
    /\ \A i \in DOMAIN c.E : c.E[i] = 0
    /\ \A i \in DOMAIN c.H : c.H[i] = 0
    /\ \A i \in DOMAIN c.V : c.V[i] = 0
    /\ \A i \in DOMAIN c.R : c.R[i] = 0
    /\ c.current_sector = 0 /\ c.cycle_count = 0
    /\ ~c.halted /\ ~c.error
    /\ c.discrete_in_a = 0 /\ c.discrete_in_b = 0 /\ c.discrete_out_a = 0
    /\ \A i \in 0..3 : c.voltage_out[i] = 0 /\ c.binary_out[i] = 0
    /\ ~c.detector /\ c.fine_countdown = 0 /\ ~c.countdown_enabled

\* every cell memory[c][s], c in 0..46, s in 0..127, is 0
MemoryCleared(c) ==
    \A ch \in 0..(CHANNELS - 1), se \in 0..(SECTORS - 1) : MemGet(c.memory, ch, se) = 0

\* C1 as stated: reset leaves d37c_mode as it was, whichever value it had.
C1_ResetKeepsMode ==
    last.op = "reset" => cpu.d37c_mode = last.pre.d37c_mode

\* C1 amended: reset sets d37c_mode to true whatever it was before, so the
\* mode is kept only when it was already true.
C1_ResetSetsMode ==
    last.op = "reset" => cpu.d37c_mode

\* a reset applied to a machine in D17B mode
C1_Witness ==
    last.op = "reset" /\ ~last.pre.d37c_mode /\ cpu.d37c_mode

\* C2 as stated: after reset every main-memory cell is 0, as are the registers,
\* loops, latches and the countdown.
C2_ResetZerosMemory ==
    last.op = "reset" => RuntimeCleared(cpu) /\ MemoryCleared(cpu)

\* C2 amended: reset zeros A, L, N, I, P, all loops, the halted and error
\* latches, the I/O latches and the countdown, and leaves every main-memory
\* cell as it was.
C2_ResetKeepsMemory ==
    [][last'.op = "reset" => RuntimeCleared(cpu') /\ cpu'.memory = cpu.memory]_vars

\* a reset of a halted machine that had run a program storing into memory
C2_Witness ==
    /\ last.op = "reset"
    /\ last.pre.halted
    /\ last.pre.A = 8
    /\ MemGet(cpu.memory, 0, 6) = 8
    /\ RuntimeCleared(cpu)

\* the run the claim C3 describes: the loop of d17b_run, left as soon as a
\* step latches error
RECURSIVE RunStoppingOnError(_, _, _)
RunStoppingOnError(c, start, max_cycles) ==
    IF RunContinues(c, start, max_cycles)
    THEN LET n == d17b_step(c)
         IN IF n.error /\ ~c.error THEN n
            ELSE RunStoppingOnError(n, start, max_cycles)
    ELSE c

\* C3: run stops stepping as soon as a step inside it latches error,
\* even with budget left and the machine not halted.
C3_RunStopsOnError ==
    [][last'.op = "run" =>
          cpu' = RunStoppingOnError(cpu, cpu.cycle_count, last'.arg)]_vars

\* C4: once halted is set, every later step and run reports halted (-1) and
\* leaves the whole state unchanged, and only reset (alone or inside init)
\* clears the latch.
C4_HaltedSticky ==
    [][cpu.halted =>
          /\ last'.op \in {"step", "run"} => (cpu' = cpu /\ last'.ret = -1)
          /\ ~cpu'.halted => last'.op \in {"reset", "init"}]_vars

\* a step called on a halted machine
C4_Witness ==
    /\ last.op = "step"
    /\ last.pre.halted
    /\ last.ret = -1
    /\ cpu.halted
    /\ cpu.cycle_count = last.pre.cycle_count

\* C5: once error is set, no step or run clears it, a later successful divide
\* included; only reset (alone or inside init) does.
C5_ErrorSticky ==
    [][cpu.error =>
          /\ last'.op \in {"step", "run"} => cpu'.error
          /\ ~cpu'.error => last'.op \in {"reset", "init"}]_vars

\* a divide that succeeds (24 / 4 = 6) on a machine whose error latch is set
C5_Witness ==
    /\ last.op = "step"
    /\ last.pre.error
    /\ last.pre.d37c_mode
    /\ GET_OPCODE(last.instr) = OP_DIV_MPM
    /\ cpu.A = 6
    /\ cpu.error

\* C6: A, L, U, every slot of F, E, H, V, R and every main-memory cell hold a
\* value in [0, 2^24), the host's words and discrete inputs being 24-bit.
C6_Words24 ==
    /\ IsWord(cpu.A) /\ IsWord(cpu.L) /\ IsWord(cpu.U)
    /\ \A i \in DOMAIN cpu.F : IsWord(cpu.F[i])
    /\ \A i \in DOMAIN cpu.E : IsWord(cpu.E[i])
    /\ \A i \in DOMAIN cpu.H : IsWord(cpu.H[i])
    /\ \A i \in DOMAIN cpu.V : IsWord(cpu.V[i])
    /\ \A i \in DOMAIN cpu.R : IsWord(cpu.R[i])
    /\ \A k \in DOMAIN cpu.memory : IsWord(cpu.memory[k])

\* a split add whose high lanes carry out of bit 23
C6_Witness ==
    /\ last.op = "step"
    /\ last.ret = 0
    /\ GET_OPCODE(last.instr) = OP_SAD
    /\ LaneHi(last.pre.A) + LaneHi(WORD_MASK) > 4095
    /\ IsWord(cpu.A)

\* I == (channel << 9) | (sector << 2), channel in 0..63, sector in 0..127
WellFormedLocation(i) ==
    \E channel \in 0..63, sector \in 0..127 : i = channel * 512 + sector * 4

\* C7: after init (or reset) and after any sequence of steps, jumping or not,
\* I is a well-formed location: its low two bits and all bits above bit 14
\* are zero.
C7_LocationWellFormed ==
    (last.op \in {"init", "reset"} \/ cpu.cycle_count > 0) =>
        /\ WellFormedLocation(cpu.I)
        /\ cpu.I % 4 = 0
        /\ cpu.I < 32768

\* a taken transfer to the last location of the address space
C7_Witness ==
    /\ last.op = "step"
    /\ last.jumped
    /\ cpu.I = 63 * 512 + 127 * 4

\* whether an instruction transfers control, as C8 and the spec state it
Transfers(c, instr) ==
    \/ GET_OPCODE(instr) = OP_TRA
    \/ /\ GET_OPCODE(instr) = OP_TMI
       /\ c.A >= SIGN_BIT
    \/ /\ GET_OPCODE(instr) = OP_TMI_TZE
       /\ IF c.d37c_mode THEN c.A % SIGN_BIT = 0 ELSE c.A >= SIGN_BIT

\* C8: after a step whose instruction does not jump, I has the channel the
\* instruction was fetched from and the sector Sp (so a sector in 0..15);
\* after a taken TRA/TMI/TZE, I is (C << 9) | (S << 2) of the instruction.
C8_NextLocation ==
    [][(last'.op = "step" /\ ~cpu.halted) =>
          LET instr == last'.instr
              from == (cpu.I \div 512) % 64
          IN IF Transfers(cpu, instr)
             THEN cpu'.I = GET_CHANNEL(instr) * 512 + GET_SECTOR(instr) * 4
             ELSE /\ cpu'.I = from * 512 + GET_SP(instr) * 4
                  /\ (cpu'.I \div 4) % 128 \in 0..15]_vars

\* an op=2 transfer whose condition is false, fetched at channel 2 with Sp = 1
C8_Witness ==
    /\ last.op = "step"
    /\ last.ret = 0
    /\ GET_OPCODE(last.instr) = OP_TMI_TZE
    /\ ~last.jumped
    /\ cpu.I = 2 * 512 + 1 * 4

\* C9: an ADD with F=1 whose operand sector S has S & 7 = 5 leaves L equal to
\* the value A holds after the ADD.
C9_FlagStoreToL ==
    (/\ last.op = "step"
     /\ last.ret = 0
     /\ GET_OPCODE(last.instr) = OP_ADD
     /\ GET_FLAG(last.instr) = 1
     /\ GET_SECTOR(last.instr) % 8 = 5) => cpu.L = cpu.A

\* the sign-magnitude reading of a 24-bit word
SignMagnitude(w) == IF w >= SIGN_BIT THEN -(w - SIGN_BIT) ELSE w

\* x clamped to [-(2^23 - 1), 2^23 - 1]
Saturated(x) ==
    IF x > 8388607 THEN 8388607 ELSE IF x < -8388607 THEN -8388607 ELSE x

\* C10: add(a, b) and sub(a, b) return a 24-bit word whose sign-magnitude
\* reading is the exact signed sum / difference clamped to +-(2^23 - 1).
C10_AddSubSaturate ==
    /\ uop = "add" =>
          /\ IsWord(ur)
          /\ SignMagnitude(ur) = Saturated(SignMagnitude(ua) + SignMagnitude(ub))
    /\ uop = "sub" =>
          /\ IsWord(ur)
          /\ SignMagnitude(ur) = Saturated(SignMagnitude(ua) - SignMagnitude(ub))

\* +0x7FFFFF plus +1 stays 0x7FFFFF
C10_Witness ==
    uop = "add" /\ ua = MAGNITUDE_MASK /\ ub = 1 /\ ur = MAGNITUDE_MASK

\* the magnitude of a sign-magnitude word
Magnitude(w) == w % SIGN_BIT

\* the sign bit of a sign-magnitude word
Negative(w) == w >= SIGN_BIT

\* the step being taken executes DIV in D37C mode
DivStep ==
    /\ last'.op = "step"
    /\ last'.ret = 0
    /\ GET_OPCODE(last'.instr) = OP_DIV_MPM
    /\ cpu.d37c_mode

\* the divisor the step being taken reads
Divisor == d17b_read(cpu, GET_CHANNEL(last'.instr), GET_SECTOR(last'.instr))

\* C11: in D37C mode a DIV that latches no error leaves
\* |A_pre| * 2^23 + |L_pre| = |A_post| * |divisor| + |L_post| and
\* |L_post| < |divisor|; A = 0, L = 24 divided by 4 gives A = 6, L = 0.  The
\* product is held as two 23-bit limbs.
C11_DivisionConsistent ==
    [][/\ (DivStep /\ ~cpu'.error) =>
             LET product == MulLimbs(Magnitude(cpu'.A), Magnitude(Divisor))
                 low == product.lo + Magnitude(cpu'.L)
             IN /\ product.hi + (low \div SIGN_BIT) = Magnitude(cpu.A)
                /\ low % SIGN_BIT = Magnitude(cpu.L)
                /\ Magnitude(cpu'.L) < Magnitude(Divisor)
       /\ (DivStep /\ cpu.A = 0 /\ cpu.L = 24 /\ Divisor = 4) =>
             (cpu'.A = 6 /\ cpu'.L = 0 /\ cpu'.error = cpu.error)]_vars

\* A = 1, L = 24 divided by 5: quotient 1677726, remainder 2
C11_Witness ==
    /\ last.op = "step"
    /\ GET_OPCODE(last.instr) = OP_DIV_MPM
    /\ last.pre.d37c_mode
    /\ last.pre.A = 1
    /\ ub = 5
    /\ cpu.A = 1677726
    /\ cpu.L = 2
    /\ ~cpu.error

\* C12: in D37C mode a DIV whose operand has magnitude 0 (0x000000 or
\* 0x800000) sets the error latch and leaves A and L unchanged; the step
\* completes normally: I goes to sector Sp of the channel the instruction was
\* fetched from, cycle_count grows by one, and the machine is not halted.
C12_DivideByZero ==
    [][(DivStep /\ Magnitude(Divisor) = 0) =>
          /\ cpu'.error
          /\ cpu'.A = cpu.A
          /\ cpu'.L = cpu.L
          /\ cpu'.I = ((cpu.I \div 512) % 64) * 512 + GET_SP(last'.instr) * 4
          /\ cpu'.cycle_count = cpu.cycle_count + 1
          /\ ~cpu'.halted]_vars

\* A = 5 divided by negative zero
C12_Witness ==
    /\ last.op = "step"
    /\ GET_OPCODE(last.instr) = OP_DIV_MPM
    /\ last.pre.d37c_mode
    /\ ~last.pre.error
    /\ last.pre.A = 5
    /\ ub = SIGN_BIT
    /\ cpu.error
    /\ cpu.A = 5
    /\ cpu.I = 4
    /\ cpu.cycle_count = 1
    /\ ~cpu.halted

\* C13: in D37C mode, when the divisor magnitude is nonzero and the exact
\* quotient magnitude exceeds 2^23 - 1, DIV sets the error latch and leaves
\* the magnitude of A equal to 2^23 - 1.  The exact quotient of
\* |A| * 2^23 + |L| by |divisor| exceeds 2^23 - 1 exactly when
\* |A| >= |divisor|, |L| being below 2^23.
C13_DivideOverflow ==
    [][(/\ DivStep
        /\ Magnitude(Divisor) # 0
        /\ Magnitude(cpu.A) >= Magnitude(Divisor)) =>
          /\ cpu'.error
          /\ Magnitude(cpu'.A) = MAGNITUDE_MASK]_vars

\* A = 8 divided by 5
C13_Witness ==
    /\ last.op = "step"
    /\ GET_OPCODE(last.instr) = OP_DIV_MPM
    /\ last.pre.d37c_mode
    /\ ~last.pre.error
    /\ last.pre.A = 8
    /\ ub = 5
    /\ cpu.error
    /\ cpu.A = MAGNITUDE_MASK

\* C14: when DIV divides (D37C mode, divisor magnitude not zero), the sign bit
\* of the quotient in A is sign(A_pre) XOR sign(divisor) and the sign bit of
\* the remainder in L is sign(A_pre), except that a quotient or a remainder of
\* magnitude zero is positive zero (0x000000), never 0x800000.
C14_DivideSigns ==
    [][(DivStep /\ Magnitude(Divisor) # 0) =>
          /\ Negative(cpu'.A) =
                (Magnitude(cpu'.A) # 0 /\ (Negative(cpu.A) # Negative(Divisor)))
          /\ Negative(cpu'.L) =
                (Magnitude(cpu'.L) # 0 /\ Negative(cpu.A))]_vars

\* A = -1, L = 24 divided by +5: quotient -1677726, remainder -2
C14_Witness ==
    /\ last.op = "step"
    /\ GET_OPCODE(last.instr) = OP_DIV_MPM
    /\ last.pre.d37c_mode
    /\ last.pre.A = SIGN_BIT + 1
    /\ ub = 5
    /\ cpu.A = SIGN_BIT + 1677726
    /\ cpu.L = SIGN_BIT + 2

\* the step being taken executes a conditional transfer of the given opcode
TransferStep(op) ==
    /\ last'.op = "step"
    /\ last'.ret = 0
    /\ GET_OPCODE(last'.instr) = op

\* the step being taken leaves I at the (C, S) of its instruction / at sector
\* Sp of the channel it was fetched from
GoesToTarget ==
    cpu'.I = GET_CHANNEL(last'.instr) * 512 + GET_SECTOR(last'.instr) * 4

GoesToNext ==
    cpu'.I = ((cpu.I \div 512) % 64) * 512 + GET_SP(last'.instr) * 4

\* C15: opcode 2 jumps iff the magnitude of A is zero in D37C mode (0x000000
\* and 0x800000 jump, -1 does not) and iff bit 23 of A is set in D17B mode
\* (0 does not jump, -1 jumps); opcode 6 jumps iff bit 23 of A is set in both
\* modes.  An instruction that does not jump goes on to its Sp.
C15_ModeSwitchedTransfer ==
    [][/\ (TransferStep(OP_TMI_TZE) /\ cpu.d37c_mode) =>
             IF Magnitude(cpu.A) = 0 THEN GoesToTarget ELSE GoesToNext
       /\ (TransferStep(OP_TMI_TZE) /\ ~cpu.d37c_mode) =>
             IF Negative(cpu.A) THEN GoesToTarget ELSE GoesToNext
       /\ TransferStep(OP_TMI) =>
             IF Negative(cpu.A) THEN GoesToTarget ELSE GoesToNext]_vars

\* in D17B mode opcode 2 with A = -1 goes to its target 00,020, not to Sp = 1
C15_Witness ==
    /\ last.op = "step"
    /\ GET_OPCODE(last.instr) = OP_TMI_TZE
    /\ GET_SP(last.instr) = 1
    /\ ~last.pre.d37c_mode
    /\ last.pre.A = SIGN_BIT + 1
    /\ cpu.I = 20 * 4

\* the machine is as d17b_init and load_test_program leave it, the two data
\* words being ua and ub
AddLoaded(c) ==
    /\ c.memory = LoadCells(ZeroMemory, AddCells(ua, ub), 1)
    /\ c.I = 0
    /\ c.cycle_count = 0
    /\ ~c.halted

\* C16: the program CLA x; ADD y; STO z; HPR, chained through Sp in channel
\* 0 and run from its first instruction with a budget of at least four, ends
\* halted after exactly four steps with memory cell z (00,006) holding the
\* saturating sign-magnitude sum of the two data words; 5 + 3 gives 8.
C16_SimpleAdd ==
    [][(last'.op = "run" /\ last'.arg >= 4 /\ AddLoaded(cpu)) =>
          LET z == MemGet(cpu'.memory, 0, 6)
          IN /\ cpu'.halted
             /\ last'.ret = -1
             /\ cpu'.cycle_count = 4
             /\ IsWord(z)
             /\ SignMagnitude(z) = Saturated(SignMagnitude(ua) + SignMagnitude(ub))
             /\ (ua = 5 /\ ub = 3) => z = 8]_vars

\* load_test_program's own words, run to the halt
C16_Witness ==
    /\ last.op = "run"
    /\ last.arg = 4
    /\ last.pre.cycle_count = 0
    /\ ua = 5
    /\ ub = 3
    /\ cpu.memory = MemPut(LoadCells(ZeroMemory, AddCells(5, 3), 1), 0, 6, 8)
    /\ cpu.halted
    /\ cpu.cycle_count = 4

\* the machine holds the program ALC k; ARC k; HPR with k = ub, set up in
\* D37C mode with A = ua, and has executed n instructions of it
Rotated(n) ==
    /\ ub \in 0..7
    /\ cpu.memory = LoadCells(ZeroMemory, RotateCells(ub), 1)
    /\ cpu.d37c_mode
    /\ cpu.cycle_count = n

\* C17: in D37C mode, for every A and every count field k in 0..7 (0 meaning
\* 8), ALC k followed by ARC k restores A bit for bit; ALC 1 on 0x800001
\* yields 0x000003.
C17_RotateRoundTrip ==
    /\ Rotated(2) => cpu.A = ua
    /\ (Rotated(1) /\ ua = SIGN_BIT + 1 /\ ub = 1) => cpu.A = 3

\* 0x123456 rotated left by 8 (count field 0) to 0x345612 and back
C17_Witness ==
    /\ Rotated(2)
    /\ ub = 0
    /\ ua = 1193046
    /\ last.op = "step"
    /\ last.pre.A = 3429906
    /\ cpu.A = 1193046

\* the loop behind an aliased channel has this many words
LoopSize(channel) ==
    CASE channel = CHAN_F_LOOP -> 4
      [] channel = CHAN_H_LOOP -> 16
      [] channel = CHAN_E_LOOP -> 8
      [] channel = CHAN_U_LOOP -> 1
      [] channel = CHAN_L_REG -> 1
      [] channel = CHAN_V_LOOP -> 4
      [] channel = CHAN_R_LOOP -> 4

Aliased == {CHAN_F_LOOP, CHAN_H_LOOP, CHAN_E_LOOP, CHAN_U_LOOP, CHAN_L_REG,
            CHAN_V_LOOP, CHAN_R_LOOP}

\* C18: for every aliased channel (octal 52, 54, 56, 60, 64, 70, 72),
\* write(channel, s, v) followed by read(channel, s') returns v masked to 24
\* bits whenever s and s' are congruent modulo the loop size (4, 16, 8, 1, 1,
\* 4, 4).
C18_LoopAliasing ==
    (/\ uop = "write, read"
     /\ ub[1] \in Aliased
     /\ last.arg[1] = ub[1]
     /\ (last.arg[2] - ub[2]) % LoopSize(ub[1]) = 0) => ur = ua % 16777216

\* channel 52 written at sector 1 with a 25-bit value, read back at sector 5
C18_Witness ==
    /\ uop = "write, read"
    /\ ub = <<CHAN_F_LOOP, 1>>
    /\ ua = 16777216 + 7
    /\ last.arg = <<CHAN_F_LOOP, 5>>
    /\ ur = 7

\* the channel numbers past the grid that name no loop
OutOfRange == (CHANNELS..63) \ Aliased

\* C20: for every non-aliased channel in 47..63 and every sector, read
\* returns 0 and write leaves the entire state unchanged; neither sets halted
\* or error.
C20_OutOfRangeAbsorbed ==
    [][/\ (last'.op = "write" /\ last'.arg[1] \in OutOfRange) =>
             (cpu' = cpu /\ ~cpu'.halted /\ ~cpu'.error)
       /\ (last'.op = "read" /\ last'.arg[1] \in OutOfRange) =>
             (last'.ret = 0 /\ ur' = 0 /\ cpu' = cpu /\ ~cpu'.halted /\ ~cpu'.error)]_vars

\* channel 63 written and read back on the machine whose loops and memory
\* hold words
C20_Witness ==
    /\ uop = "write, read"
    /\ ub = <<63, 1>>
    /\ ua = WORD_MASK
    /\ last.arg = <<63, 1>>
    /\ ur = 0
    /\ cpu = Filled

\* the cells of main memory under channels 42, 44 and 46
Backing(mem) ==
    [k \in {j \in DOMAIN mem : j[1] \in BackingChannels} |-> mem[k]]

\* the machine with those cells zeroed
Scrub(c) ==
    [c EXCEPT !.memory =
        [k \in {j \in DOMAIN c.memory : j[1] \notin BackingChannels} |-> c.memory[k]]]

\* what step, read and write do does not depend on those cells
BackingIgnored ==
    /\ d17b_step(Scrub(cpu)) = Scrub(d17b_step(cpu))
    /\ \A channel \in BackingChannels \cup {0}, sector \in {1, 5} :
          /\ d17b_read(Scrub(cpu), channel, sector) = d17b_read(cpu, channel, sector)
          /\ d17b_write(Scrub(cpu), channel, sector, 5)
                = Scrub(d17b_write(cpu, channel, sector, 5))

\* C19: no read, write or step (instruction fetch, STO and flag store
\* included) changes memory[42][*], memory[44][*] or memory[46][*], and no
\* result depends on their contents.
C19_BackingUntouched ==
    /\ [][Backing(cpu'.memory) = Backing(cpu.memory)]_vars
    /\ []BackingIgnored

\* the flagged ADD fetched from F[2] has stored A in F[2], while the memory
\* under channel 42 still holds its HPR words and the machine runs on
C19_Witness ==
    /\ last.op = "step"
    /\ GET_OPCODE(last.instr) = OP_ADD
    /\ GET_CHANNEL(last.instr) = CHAN_F_LOOP
    /\ cpu.F[2] = last.pre.A
    /\ cpu.H[1] \in {5, 11}
    /\ Backing(cpu.memory) = Backing(BackingStart.memory)
    /\ MemGet(cpu.memory, CHAN_F_LOOP, 2) = HPR(0)
    /\ ~cpu.halted

\* C21: run(max_cycles) returns having executed at most max_cycles steps
\* (cycle_count grows by at most max_cycles, and by exactly max_cycles when
\* the machine is not halted on return), executes nothing when max_cycles is
\* 0, and returns the halted code -1 iff halted is set on return (0 otherwise).
C21_RunBudget ==
    [][last'.op = "run" =>
          LET executed == cpu'.cycle_count - cpu.cycle_count
          IN /\ executed \in 0..last'.arg
             /\ ~cpu'.halted => executed = last'.arg
             /\ last'.arg = 0 => cpu' = cpu
             /\ last'.ret = IF cpu'.halted THEN -1 ELSE 0]_vars

\* a run with a budget of 40 that halts after the 8 word times of a count of 2
C21_Witness ==
    /\ last.op = "run"
    /\ last.arg = 40
    /\ last.pre.cycle_count = 0
    /\ last.pre.A = 2
    /\ cpu.cycle_count = 8
    /\ cpu.halted
    /\ last.ret = -1

\* C22: every step executed while not halted, whatever the instruction,
\* increments cycle_count by exactly 1 and sets current_sector to
\* (current_sector + 1) mod 128; current_sector stays in 0..127 and equals
\* cycle_count mod 128 since the last init or reset.
C22_CycleAndSector ==
    /\ [][(last'.op = "step" /\ ~cpu.halted) =>
             /\ cpu'.cycle_count = cpu.cycle_count + 1
             /\ cpu'.current_sector = (cpu.current_sector + 1) % 128]_vars
    /\ [](/\ cpu.current_sector \in 0..127
          /\ cpu.current_sector = cpu.cycle_count % 128)

\* the step that ends the first revolution of the disc
C22_Witness ==
    /\ last.op = "step"
    /\ last.ret = 0
    /\ last.pre.cycle_count = 127
    /\ cpu.cycle_count = 128
    /\ cpu.current_sector = 0
    /\ cpu.error

\* the special-family sub-opcode of an instruction word, -1 for other families
SpecialSubOp(instr) ==
    IF GET_OPCODE(instr) = OP_SPECIAL THEN GET_SECTOR(instr) \div 2 ELSE -1

\* C23: fine_countdown never increases and never goes below zero; a step
\* decrements it by exactly 1 iff countdown_enabled is true once the step's
\* instruction has executed and the counter is greater than 0, and leaves it
\* unchanged otherwise; a step changes countdown_enabled only by EFC (to
\* true) and HFC (to false).
C23_CountdownGating ==
    [][/\ last'.op \in {"step", "run"} =>
             cpu'.fine_countdown \in 0..cpu.fine_countdown
       /\ (last'.op = "step" /\ ~cpu.halted) =>
             /\ cpu'.fine_countdown =
                   IF cpu'.countdown_enabled /\ cpu.fine_countdown > 0
                   THEN cpu.fine_countdown - 1
                   ELSE cpu.fine_countdown
             /\ (cpu'.countdown_enabled /\ ~cpu.countdown_enabled) =>
                   SpecialSubOp(last'.instr) = 25
             /\ (~cpu'.countdown_enabled /\ cpu.countdown_enabled) =>
                   SpecialSubOp(last'.instr) = 24
       /\ (last'.op = "step" /\ cpu.halted) =>
             cpu'.countdown_enabled = cpu.countdown_enabled]_vars

\* the second EFC of the program: the counter, 3 at the start, was decremented
\* by the first EFC and by ANA, held by HFC and COM, and now reaches 0
C23_Witness ==
    /\ last.op = "step"
    /\ SpecialSubOp(last.instr) = 25
    /\ ua = 3
    /\ cpu.cycle_count = 5
    /\ cpu.countdown_enabled
    /\ cpu.fine_countdown = 0

\* a 12-bit lane read as a signed value, and a signed value back in a lane
LaneValue(lane) == IF lane >= 2048 THEN lane - 4096 ELSE lane
LaneOf(value) == value % 4096

\* value clamped to [-limit, +limit]
Clamped(value, limit) ==
    IF value > limit THEN limit ELSE IF value < -limit THEN -limit ELSE value

\* the operand word the step being taken reads
Operand == d17b_read(cpu, GET_CHANNEL(last'.instr), GET_SECTOR(last'.instr))

\* C24: SCL clamps each 12-bit lane of A independently: with the lanes of A
\* and of the operand read as signed 12-bit values, the resulting lane is the
\* original lane clamped to [-|operand_lane|, +|operand_lane|], for negative
\* operand lanes too; a lane inside the range is left unchanged.
C24_SclClamps ==
    [][(last'.op = "step" /\ last'.ret = 0 /\ GET_OPCODE(last'.instr) = OP_SCL) =>
          /\ cpu'.A \div 4096 =
                LaneOf(Clamped(LaneValue(cpu.A \div 4096),
                               Abs(LaneValue(Operand \div 4096))))
          /\ cpu'.A % 4096 =
                LaneOf(Clamped(LaneValue(cpu.A % 4096),
                               Abs(LaneValue(Operand % 4096))))]_vars

\* the step being taken executes an instruction of the given opcode
OpStep(op) ==
    /\ last'.op = "step"
    /\ last'.ret = 0
    /\ GET_OPCODE(last'.instr) = op

\* the magnitude held in bits 22..14 of a word
SplitMagnitude(w) == (w \div 16384) % 512

\* C25: SMP takes from A and from the operand the value held in bits 23..14
\* (sign in bit 23, magnitude in bits 22..14) and places the product in A:L:
\* |A_post| * 2^23 + |L_post| is the product of the two extracted magnitudes,
\* for every combination of signs.  The product is below 2^18.
C25_SplitMultiply ==
    [][OpStep(OP_SMP) =>
          LET product == SplitMagnitude(cpu.A) * SplitMagnitude(Operand)
          IN /\ Magnitude(cpu'.A) = product \div SIGN_BIT
             /\ Magnitude(cpu'.L) = product % SIGN_BIT]_vars

\* pairwise coprime moduli whose product exceeds 2^46
Moduli == {32768, 32767, 32765, 32763}

\* hi * 2^23 + lo and x * y leave the same residue modulo m
SameResidue(hi, lo, x, y, m) ==
    ((hi % m) * (SIGN_BIT % m) + (lo % m)) % m = ((x % m) * (y % m)) % m

\* C26: after MPY, |A| * 2^23 + |L| = |A_pre| * |operand| with bit 23 of L
\* clear, and bit 23 of A is set iff the signed product is strictly negative:
\* A can be 0x800000 with L not zero, a zero product gives A = 0x000000.  Both
\* sides of the equation are below 2^46, so they are equal iff they agree
\* modulo each of the moduli.
C26_FullMultiply ==
    [][OpStep(OP_MPY) =>
          /\ \A m \in Moduli :
                SameResidue(Magnitude(cpu'.A), cpu'.L,
                            Magnitude(cpu.A), Magnitude(Operand), m)
          /\ cpu'.L < SIGN_BIT
          /\ Negative(cpu'.A) =
                (/\ Negative(cpu.A) # Negative(Operand)
                 /\ Magnitude(cpu.A) # 0
                 /\ Magnitude(Operand) # 0)]_vars

\* -1 times 5: A is negative zero, L is 5
C26_Witness ==
    /\ last.op = "step"
    /\ GET_OPCODE(last.instr) = OP_MPY
    /\ last.pre.A = SIGN_BIT + 1
    /\ ub = 5
    /\ cpu.A = SIGN_BIT
    /\ cpu.L = 5

\* C27: negative zero is not canonicalized by add and subtract: when A is
\* negative zero (0x800000), an ADD or a SUB of a zero operand leaves A equal
\* to 0x800000.
C27_NegativeZeroKept ==
    [][(/\ OpStep(OP_ADD) \/ OpStep(OP_SUB)
        /\ cpu.A = SIGN_BIT
        /\ Magnitude(Operand) = 0)
       => cpu'.A = SIGN_BIT]_vars

\* the shift-family sub-opcode of an instruction word, -1 for other families
ShiftSubOp(instr) ==
    IF GET_OPCODE(instr) = OP_SHIFT THEN GET_SECTOR(instr) \div 8 ELSE -1

\* the sub-opcodes of the special family that have an effect
SpecialTable == {1, 4, 5, 8, 9, 11, 12, 13, 14, 16, 17, 18, 19, 20, 21, 24, 25, 30, 31}

\* the instruction of the step being taken has an unknown sub-opcode
UnknownStep ==
    /\ last'.op = "step"
    /\ last'.ret = 0
    /\ \/ /\ GET_OPCODE(last'.instr) = OP_SHIFT
          /\ ShiftSubOp(last'.instr) \notin 8..16
       \/ /\ GET_OPCODE(last'.instr) = OP_SPECIAL
          /\ \/ SpecialSubOp(last'.instr) \notin SpecialTable
             \/ SpecialSubOp(last'.instr) = 16 /\ ~cpu.d37c_mode

\* the machine without the fields the driver advances
Undriven(c) ==
    [c EXCEPT !.I = 0, !.current_sector = 0, !.cycle_count = 0,
              !.fine_countdown = 0]

\* C28: unknown sub-opcodes are no-ops: a shift instruction whose sub-opcode
\* is outside 0x08..0x10, a special instruction whose sub-opcode is not in the
\* table, and ORA in D17B mode change nothing except the driver's fields: I
\* goes to sector Sp of the channel fetched from, current_sector, cycle_count
\* and fine_countdown advance; A, L, P, the loops, memory, the latches and
\* error are unchanged.
C28_UnknownSubOpNoOp ==
    [][UnknownStep =>
          /\ Undriven(cpu') = Undriven(cpu)
          /\ cpu'.I = 512 * ((cpu.I \div 512) % 64) + 4 * GET_SP(last'.instr)]_vars

\* ORA in D17B mode, with the countdown running: only the driver's fields moved
C28_Witness ==
    /\ last.op = "step"
    /\ SpecialSubOp(last.instr) = 16
    /\ ~cpu.d37c_mode
    /\ cpu.countdown_enabled
    /\ cpu.fine_countdown = 1
    /\ cpu.cycle_count = 2
    /\ cpu.A = 5
    /\ cpu.L = 12
    /\ cpu.I = 8

\* a shift of sub-opcode 7 was executed and left A and L alone
C28_ShiftWitness ==
    /\ last.op = "step"
    /\ ShiftSubOp(last.instr) = 7
    /\ cpu.cycle_count = 2
    /\ cpu.A = 5

\* C29: in D37C mode DIV latches error exactly when |A_pre| >= |divisor|,
\* which includes a zero divisor: the latch after the divide is set iff it was
\* set before or the magnitude of A is at least the divisor's magnitude,
\* whatever L and the signs are.
C29_DivideErrorCondition ==
    [][DivStep =>
          (cpu'.error <=>
             (cpu.error \/ Magnitude(cpu.A) >= Magnitude(Divisor)))]_vars

\* equal magnitudes: 4 divided by 4 latches the error
C29_Witness ==
    /\ last.op = "step"
    /\ GET_OPCODE(last.instr) = OP_DIV_MPM
    /\ last.pre.d37c_mode
    /\ ~last.pre.error
    /\ last.pre.A = 4
    /\ ub = 4
    /\ cpu.error

\* one less than the divisor: 3 divided by 4 latches nothing
C29_NoErrorWitness ==
    /\ last.op = "step"
    /\ GET_OPCODE(last.instr) = OP_DIV_MPM
    /\ last.pre.d37c_mode
    /\ last.pre.A = 3
    /\ ub = 4
    /\ ~cpu.error

\* the step being taken executes an arithmetic instruction that stores A in
\* the F loop: flag bit set and low three bits of the word equal to 2
FlagStoreStep ==
    /\ last'.op = "step"
    /\ last'.ret = 0
    /\ GET_OPCODE(last'.instr) \notin
          {OP_SHIFT, OP_SPECIAL, OP_TRA, OP_TMI_TZE, OP_TMI, OP_SCL}
    /\ (last'.instr \div 524288) % 2 = 1
    /\ last'.instr % 8 = 2

\* C30: the flag store happens before the instruction's own operation: when an
\* arithmetic instruction with F = 1 stores to the F loop (low three bits of
\* the word equal to 2), F[S & 3] afterwards holds the value A had before the
\* instruction, not the instruction's result.
C30_FlagStoreFirst ==
    [][FlagStoreStep =>
          cpu'.F[GET_SECTOR(last'.instr) % 4] = cpu.A]_vars

\* flagged ADD 00,020 of 3 to 7: A is 10, F[0] holds 7
C30_Witness ==
    /\ last.op = "step"
    /\ GET_OPCODE(last.instr) = OP_ADD
    /\ GET_FLAG(last.instr) = 1
    /\ last.instr % 8 = 2
    /\ GET_CHANNEL(last.instr) = 0
    /\ GET_SECTOR(last.instr) = 16
    /\ last.pre.A = 7
    /\ cpu.A = 10
    /\ cpu.F[0] = 7

\* the channels outside the disc that are not a loop or a register:
\* 47..63 other than octal 60, 64, 70, 72
StuckChannels == (47..63) \ {48, 52, 56, 58}

\* the channel of the location counter
LocationChannel(c) == (c.I \div 512) % 64

\* the countdown after k steps from the state c
CountedDown(c, k) ==
    IF ~c.countdown_enabled THEN c.fine_countdown
    ELSE IF c.fine_countdown > k THEN c.fine_countdown - k
    ELSE 0

\* C31: once the channel of the location counter is an out-of-range channel
\* that is no loop, the machine stays there: every later step fetches the
\* word 0, executes a no-op and leaves I at sector 0 of that channel, halted
\* and error are never set, A, L, memory and the loops never change; only
\* cycle_count, current_sector and the countdown advance.
C31_StuckOutOfRange ==
    [][(/\ LocationChannel(cpu) \in StuckChannels
        /\ ~cpu.halted
        /\ last'.op \in {"step", "run"})
       => LET steps == IF last'.op = "step" THEN 1 ELSE last'.arg
          IN /\ Undriven(cpu') = Undriven(cpu)
             /\ LocationChannel(cpu') = LocationChannel(cpu)
             /\ steps > 0 => cpu'.I = 512 * LocationChannel(cpu)
             /\ steps = 0 => cpu'.I = cpu.I
             /\ last'.op = "step" => last'.instr = 0
             /\ last'.ret = 0
             /\ cpu'.cycle_count = cpu.cycle_count + steps
             /\ cpu'.current_sector = (cpu.current_sector + steps) % 128
             /\ cpu'.fine_countdown = CountedDown(cpu, steps)]_vars

\* four steps after TRA 75,005: I is at 75,000, the countdown has run out,
\* nothing else has moved
C31_Witness ==
    /\ last.op = "step"
    /\ last.instr = 0
    /\ ua = 61
    /\ ub = 5
    /\ cpu.I = 512 * 61
    /\ cpu.cycle_count = 6
    /\ cpu.countdown_enabled
    /\ cpu.fine_countdown = 0
    /\ cpu.A = 5
    /\ cpu.L = 12
    /\ ~cpu.halted
    /\ ~cpu.error

\* C32: no step and no run, whatever the instruction, modifies N, the
\* discrete input latches discrete_in_a and discrete_in_b, or slot 3 of
\* voltage_out and of binary_out; N is 0 from init and reset onward; the
\* detector is never set, and a step clears it only by RSD.
C32_UntouchedLatches ==
    /\ [][last'.op \in {"step", "run"} =>
            /\ cpu'.N = cpu.N
            /\ cpu'.discrete_in_a = cpu.discrete_in_a
            /\ cpu'.discrete_in_b = cpu.discrete_in_b
            /\ cpu'.voltage_out[3] = cpu.voltage_out[3]
            /\ cpu'.binary_out[3] = cpu.binary_out[3]
            /\ cpu'.detector => cpu.detector
            /\ (last'.op = "step" /\ cpu.detector /\ ~cpu'.detector) =>
                  SpecialSubOp(last'.instr) = 8]_vars
    /\ [](cpu.N = 0)

\* VOC on A = 0xFFFFFF with the latches written: slot 2 holds 511, slot 3,
\* the input latches and the detector are as the host left them
C32_Witness ==
    /\ last.op = "step"
    /\ SpecialSubOp(last.instr) = 14
    /\ last.pre.A = WORD_MASK
    /\ cpu.voltage_out[2] = 511
    /\ cpu.voltage_out[3] = 7
    /\ cpu.binary_out[3] = 2
    /\ cpu.discrete_in_a = 21
    /\ cpu.discrete_in_b = 22
    /\ cpu.detector
    /\ cpu.N = 0

====
